---- MODULE Spec2Model ----
(***************************************************************************)
(* rune-cfg: parser, reference resolution, value resolution / flattening   *)
(* and the RuneConfig access layer, as a state machine.                     *)
(*                                                                          *)
(* Strings are TLA+ strings; Len, SubSeq and \o are used character-wise.    *)
(* Option<T> is the empty sequence (None) or a one-element sequence (Some). *)
(* Result<T, RuneError> is a record with ok = TRUE and v, or ok = FALSE     *)
(* with the error kind and its numeric code.                                *)
(*                                                                          *)
(* A step that uses the result r of a call more than once is written        *)
(*     CHOOSE out \in {e(r) : r \in {call}} : TRUE                           *)
(* which is e(r) with r bound to the value of the call.                     *)
(***************************************************************************)
EXTENDS Integers, Sequences, FiniteSets, TLC

\* documents:   RuneConfig.documents, alias -> Document ("main" is the main one)
\* raw_content: RuneConfig.raw_content, the text of the main file
\* env:         the process environment, name -> Option<String>
\* the_lexer:   the Lexer an application drives by hand (lexer/mod.rs)
\* loader:      RuneConfig::from_file_with_base while it runs: its local
\*              variables and the calls of load_import_recursive in progress
\* res:         the last call made and what it returned
VARIABLES documents, raw_content, env, the_lexer, loader, res

vars == <<documents, raw_content, env, the_lexer, loader, res>>

\* res after a call: the operation, its argument and what it returned.
Returned(op, arg, out) == [op |-> op, arg |-> arg, out |-> out]

(***************************************************************************)
(* Bounds of the model                                                      *)
(***************************************************************************)

\* Depth of nested resolve_value_recursively / flatten_items calls after
\* which the native stack is taken to be exhausted.
StackLimit == 12

\* Number of top-level statements in the main file.
MaxStmts == 2

(***************************************************************************)
(* Option and Result                                                        *)
(***************************************************************************)

None == <<>>

Some(x) == <<x>>

is_some(o) == Len(o) = 1

is_none(o) == Len(o) = 0

unwrap(o) == o[1]

Ok(x) == [ok |-> TRUE, v |-> x]

Err(kind, code) == [ok |-> FALSE, kind |-> kind, code |-> code]

\* The process aborts when recursion exhausts the stack; no RuneError exists
\* for it.
StackOverflow == [ok |-> FALSE, kind |-> "StackOverflow", code |-> 0]

(***************************************************************************)
(* ast: Value, ObjectItem, Condition, Document                              *)
(***************************************************************************)

VString(s) == [t |-> "String", s |-> s]

VNumber(n) == [t |-> "Number", n |-> n]

VBool(b) == [t |-> "Bool", b |-> b]

VRegex(src) == [t |-> "Regex", src |-> src]

VNull == [t |-> "Null"]

VArray(arr) == [t |-> "Array", arr |-> arr]

VObject(items) == [t |-> "Object", items |-> items]

VReference(path) == [t |-> "Reference", path |-> path]

VInterpolated(parts) == [t |-> "Interpolated", parts |-> parts]

VConditional(condition, then_value, else_value) ==
    [t |-> "Conditional", condition |-> condition,
     then_value |-> then_value, else_value |-> else_value]

Assign(k, v) == [t |-> "Assign", k |-> k, v |-> v]

IfBlock(condition, then_items, else_items) ==
    [t |-> "IfBlock", condition |-> condition,
     then_items |-> then_items, else_items |-> else_items]

Equals(path, expected) == [t |-> "Equals", path |-> path, expected |-> expected]

NotEquals(path, expected) == [t |-> "NotEquals", path |-> path, expected |-> expected]

Exists(path) == [t |-> "Exists", path |-> path]

NotExists(path) == [t |-> "NotExists", path |-> path]

Document(items, metadata, globals) ==
    [items |-> items, metadata |-> metadata, globals |-> globals]

\* impl PartialEq for Value: structural, a Regex by its source text.
ValueEq(a, b) == a = b

(***************************************************************************)
(* String helpers (str::split, [String]::join)                              *)
(***************************************************************************)

RECURSIVE SplitFrom(_, _, _, _, _)
SplitFrom(s, ch, i, cur, acc) ==
    IF i > Len(s) THEN Append(acc, cur)
    ELSE IF SubSeq(s, i, i) = ch
         THEN SplitFrom(s, ch, i + 1, "", Append(acc, cur))
         ELSE SplitFrom(s, ch, i + 1, cur \o SubSeq(s, i, i), acc)

split(s, ch) == SplitFrom(s, ch, 1, "", <<>>)

RECURSIVE join(_, _)
join(segs, sep) ==
    IF Len(segs) = 0 THEN ""
    ELSE IF Len(segs) = 1 THEN segs[1]
    ELSE segs[1] \o sep \o join(Tail(segs), sep)

\* iter().find(|(k, _)| k == key) over a Vec<(String, Value)>
RECURSIVE find_pair(_, _)
find_pair(pairs, key) ==
    IF Len(pairs) = 0 THEN None
    ELSE IF pairs[1][1] = key THEN Some(pairs[1][2])
    ELSE find_pair(Tail(pairs), key)

\* iter().find_map(|item| match item { Assign(k, v) if k == seg => Some(v), _ => None })
RECURSIVE find_assign(_, _)
find_assign(items, seg) ==
    IF Len(items) = 0 THEN None
    ELSE IF items[1].t = "Assign" /\ items[1].k = seg THEN Some(items[1].v)
    ELSE find_assign(Tail(items), seg)

(***************************************************************************)
(* The process environment and the system-information provider             *)
(***************************************************************************)

\* std::env::var(name)
env_var(name) == IF name \in DOMAIN env THEN env[name] ELSE None

\* sysinfo: what the platform reports for each key of resolve_sys; the
\* product name is not reported on this platform.
sys_lookup(key) ==
    CASE key = "os" -> Some("Linux")
      [] key \in {"kernel_version", "kernel-version"} -> Some("6.1")
      [] key \in {"os_version", "os-version"} -> Some("12")
      [] key = "hostname" -> Some("host")
      [] key \in {"product_name", "product-name"} -> None
      [] key \in {"cpu_arch", "cpu-arch"} -> Some("x86_64")
      [] key \in {"cpu_count", "cpu-count"} -> Some("2")
      [] key \in {"memory_total", "memory-total"} -> Some("1 GB")
      [] key \in {"memory_free", "memory-free"} -> Some("1 GB")
      [] key \in {"memory_used", "memory-used"} -> Some("0 B")
      [] key = "uptime" -> Some("1m")
      [] OTHER -> None

sys_keys ==
    {"os", "kernel_version", "kernel-version", "os_version", "os-version",
     "hostname", "product_name", "product-name", "cpu_arch", "cpu-arch",
     "cpu_count", "cpu-count", "memory_total", "memory-total", "memory_free",
     "memory-free", "memory_used", "memory-used", "uptime"}

(***************************************************************************)
(* resolver.rs                                                              *)
(***************************************************************************)

\* resolve_env failing for a variable that is not set.
resolve_env_unset_is_error(path) ==
    IF Len(path) # 2 THEN Err("SyntaxError", 209)
    ELSE IF is_none(env_var(path[2])) THEN Err("RuntimeError", 308)
    ELSE Ok(unwrap(env_var(path[2])))

\* std::env::var(name).unwrap_or_default()
resolve_env(path) ==
    IF Len(path) # 2 THEN Err("SyntaxError", 209)
    ELSE Ok(IF is_some(env_var(path[2])) THEN unwrap(env_var(path[2])) ELSE "")

resolve_sys(path) ==
    IF Len(path) < 2 THEN Err("SyntaxError", 211)
    ELSE IF path[2] \notin sys_keys THEN Err("SyntaxError", 212)
    ELSE IF is_none(sys_lookup(path[2])) THEN Err("SyntaxError", 213)
    ELSE Ok(unwrap(sys_lookup(path[2])))

\* resolve_env(..).map(Value::String): the string as a Value, or the error.
string_value(r) == IF r.ok THEN Ok(VString(r.v)) ELSE r

\* parse_dollar_reference leaving an env path for later resolution.
parse_dollar_reference_deferred(path) ==
    IF Len(path) = 0 THEN Ok(VReference(path))
    ELSE CASE path[1] = "env" -> Ok(VReference(path))
           [] path[1] = "sys" -> string_value(resolve_sys(path))
           [] OTHER -> Ok(VReference(path))

parse_dollar_reference(path) ==
    IF Len(path) = 0 THEN Ok(VReference(path))
    ELSE CASE path[1] = "env" -> string_value(resolve_env(path))
           [] path[1] = "sys" -> string_value(resolve_sys(path))
           [] OTHER -> Ok(VReference(path))

(***************************************************************************)
(* parser/reference.rs                                                      *)
(***************************************************************************)

\* The items of an object with each if-block replaced by its then-items.
RECURSIVE then_items_inlined(_)
then_items_inlined(items) ==
    IF Len(items) = 0 THEN <<>>
    ELSE (IF items[1].t = "Assign" THEN <<items[1]>>
          ELSE then_items_inlined(items[1].then_items))
         \o then_items_inlined(Tail(items))

\* traverse walking into the then-branch of the if-blocks of an Object.
RECURSIVE traverse_into_then_branches(_, _)
traverse_into_then_branches(current, segs) ==
    IF Len(segs) = 0 THEN Some(current)
    ELSE IF current.t = "Object"
         THEN IF is_some(find_assign(then_items_inlined(current.items), segs[1]))
              THEN traverse_into_then_branches(
                       unwrap(find_assign(then_items_inlined(current.items), segs[1])),
                       Tail(segs))
              ELSE None
         ELSE None

\* The loop over remaining_path[1..]: only literal Assign entries of an
\* Object are visible.
RECURSIVE traverse(_, _)
traverse(current, segs) ==
    IF Len(segs) = 0 THEN Some(current)
    ELSE IF current.t = "Object"
         THEN IF is_some(find_assign(current.items, segs[1]))
              THEN traverse(unwrap(find_assign(current.items, segs[1])), Tail(segs))
              ELSE None
         ELSE None

\* first_segment_value searching the globals before the items.
first_segment_value_globals_first(current_doc, first_segment) ==
    IF is_some(find_pair(current_doc.globals, first_segment))
    THEN find_pair(current_doc.globals, first_segment)
    ELSE find_pair(current_doc.items, first_segment)

\* The first remaining segment: items first, then globals.
first_segment_value(current_doc, first_segment) ==
    IF is_some(find_pair(current_doc.items, first_segment))
    THEN find_pair(current_doc.items, first_segment)
    ELSE find_pair(current_doc.globals, first_segment)

\* resolve_reference preferring a field of the current document over an
\* import alias of the same name.
resolve_reference_local_first(imports, path, doc) ==
    IF Len(path) = 0 THEN None
    ELSE LET is_alias == path[1] \in DOMAIN imports
                         /\ is_none(first_segment_value(doc, path[1]))
             current_doc == IF is_alias THEN imports[path[1]] ELSE doc
             remaining_path == IF is_alias THEN Tail(path) ELSE path
         IN IF Len(remaining_path) = 0 THEN None
            ELSE CHOOSE out \in
                     {IF is_none(first) THEN None
                      ELSE traverse(unwrap(first), Tail(remaining_path))
                        : first \in {first_segment_value(current_doc,
                                                         remaining_path[1])}} : TRUE

resolve_reference(imports, path, doc) ==
    IF Len(path) = 0 THEN None
    ELSE LET is_alias == path[1] \in DOMAIN imports
             current_doc == IF is_alias THEN imports[path[1]] ELSE doc
             remaining_path == IF is_alias THEN Tail(path) ELSE path
         IN IF Len(remaining_path) = 0 THEN None
            ELSE CHOOSE out \in
                     {IF is_none(first) THEN None
                      ELSE traverse(unwrap(first), Tail(remaining_path))
                        : first \in {first_segment_value(current_doc,
                                                         remaining_path[1])}} : TRUE

(***************************************************************************)
(* config/helpers.rs                                                        *)
(***************************************************************************)

dollar_namespaces == {"env", "sys", "runtime"}

\* Result::ok()
ok_value(r) == IF r.ok THEN Some(r.v) ELSE None

resolve_path_value(imports, doc, path) ==
    CHOOSE out \in
        {IF Len(segs) >= 2 /\ segs[1] \in dollar_namespaces
         THEN ok_value(parse_dollar_reference(segs))
         ELSE resolve_reference(imports, segs, doc)
           : segs \in {split(path, ".")}} : TRUE

\* condition_is_met with NotEquals false for a path that does not resolve.
condition_is_met_unresolved_false(condition, imports, doc) ==
    CHOOSE out \in
        {CASE condition.t = "Equals" ->
                IF is_some(actual) THEN ValueEq(unwrap(actual), condition.expected)
                ELSE FALSE
           [] condition.t = "NotEquals" ->
                IF is_some(actual) THEN ~ValueEq(unwrap(actual), condition.expected)
                ELSE FALSE
           [] condition.t = "Exists" -> is_some(actual)
           [] condition.t = "NotExists" -> is_none(actual)
           : actual \in {resolve_path_value(imports, doc, condition.path)}} : TRUE

condition_is_met(condition, imports, doc) ==
    CHOOSE out \in
        {CASE condition.t = "Equals" ->
                IF is_some(actual) THEN ValueEq(unwrap(actual), condition.expected)
                ELSE FALSE
           [] condition.t = "NotEquals" ->
                IF is_some(actual) THEN ~ValueEq(unwrap(actual), condition.expected)
                ELSE TRUE
           [] condition.t = "Exists" -> is_some(actual)
           [] condition.t = "NotExists" -> is_none(actual)
           : actual \in {resolve_path_value(imports, doc, condition.path)}} : TRUE

evaluate_conditional(cond, imports, doc) ==
    IF condition_is_met(cond.condition, imports, doc)
    THEN cond.then_value
    ELSE IF is_some(cond.else_value) THEN unwrap(cond.else_value) ELSE VNull

\* The branch of an if-block that flatten_items splices in.
take_branch(block, imports, doc) ==
    IF condition_is_met(block.condition, imports, doc)
    THEN block.then_items
    ELSE IF is_some(block.else_items) THEN unwrap(block.else_items) ELSE <<>>

RECURSIVE resolve_value_recursively(_, _, _, _)
RECURSIVE resolve_array(_, _, _, _, _)
RECURSIVE flatten_items(_, _, _, _, _)

\* resolve_value_recursively returning the target of a reference as it is
\* stored, without resolving it in turn.
resolve_value_recursively_target_as_stored(value, imports, main_doc, depth) ==
    IF depth > StackLimit THEN StackOverflow
    ELSE CASE value.t = "Conditional" ->
                resolve_value_recursively(
                    evaluate_conditional(value, imports, main_doc),
                    imports, main_doc, depth + 1)
           [] value.t = "Reference" ->
                LET path == value.path
                IN IF Len(path) = 2 /\ path[1] = "env"
                   THEN IF is_some(env_var(path[2]))
                        THEN Ok(VString(unwrap(env_var(path[2]))))
                        ELSE Err("RuntimeError", 308)
                   ELSE IF Len(path) >= 1 /\ path[1] = "sys"
                   THEN Ok(VString("sys_placeholder:" \o join(Tail(path), ".")))
                   ELSE IF Len(path) >= 1 /\ path[1] = "runtime"
                   THEN Ok(VString("runtime_placeholder:" \o join(Tail(path), ".")))
                   ELSE CHOOSE out \in
                            {IF is_some(resolved) THEN Ok(unwrap(resolved))
                             ELSE Ok(value)
                               : resolved \in {resolve_reference(imports, path,
                                                                 main_doc)}} : TRUE
           [] value.t = "Array" ->
                resolve_array(<<>>, value.arr, imports, main_doc, depth)
           [] value.t = "Object" ->
                CHOOSE out \in
                    {IF flattened.ok THEN Ok(VObject(flattened.v)) ELSE flattened
                       : flattened \in {flatten_items(<<>>, value.items, imports,
                                                      main_doc, depth + 1)}} : TRUE
           [] OTHER -> Ok(value)

\* resolve_value_recursively resolving a found reference again, where the
\* code resolves the value the reference leads to.
resolve_value_recursively_reference_again(value, imports, main_doc, depth) ==
    IF depth > StackLimit THEN StackOverflow
    ELSE CASE value.t = "Conditional" ->
                resolve_value_recursively(
                    evaluate_conditional(value, imports, main_doc),
                    imports, main_doc, depth + 1)
           [] value.t = "Reference" ->
                LET path == value.path
                IN IF Len(path) = 2 /\ path[1] = "env"
                   THEN IF is_some(env_var(path[2]))
                        THEN Ok(VString(unwrap(env_var(path[2]))))
                        ELSE Err("RuntimeError", 308)
                   ELSE IF Len(path) >= 1 /\ path[1] = "sys"
                   THEN Ok(VString("sys_placeholder:" \o join(Tail(path), ".")))
                   ELSE IF Len(path) >= 1 /\ path[1] = "runtime"
                   THEN Ok(VString("runtime_placeholder:" \o join(Tail(path), ".")))
                   ELSE CHOOSE out \in
                            {IF is_some(resolved)
                             THEN resolve_value_recursively(
                                      value, imports, main_doc, depth + 1)
                             ELSE Ok(value)
                               : resolved \in {resolve_reference(imports, path,
                                                                 main_doc)}} : TRUE
           [] value.t = "Array" ->
                resolve_array(<<>>, value.arr, imports, main_doc, depth)
           [] value.t = "Object" ->
                CHOOSE out \in
                    {IF flattened.ok THEN Ok(VObject(flattened.v)) ELSE flattened
                       : flattened \in {flatten_items(<<>>, value.items, imports,
                                                      main_doc, depth + 1)}} : TRUE
           [] OTHER -> Ok(value)

\* resolve_value_recursively resolving what a reference found in an import
\* against that import, where the code keeps resolving against main_doc.
resolve_value_recursively_in_import(value, imports, main_doc, depth) ==
    IF depth > StackLimit THEN StackOverflow
    ELSE CASE value.t = "Conditional" ->
                resolve_value_recursively(
                    evaluate_conditional(value, imports, main_doc),
                    imports, main_doc, depth + 1)
           [] value.t = "Reference" ->
                LET path == value.path
                IN IF Len(path) = 2 /\ path[1] = "env"
                   THEN IF is_some(env_var(path[2]))
                        THEN Ok(VString(unwrap(env_var(path[2]))))
                        ELSE Err("RuntimeError", 308)
                   ELSE IF Len(path) >= 1 /\ path[1] = "sys"
                   THEN Ok(VString("sys_placeholder:" \o join(Tail(path), ".")))
                   ELSE IF Len(path) >= 1 /\ path[1] = "runtime"
                   THEN Ok(VString("runtime_placeholder:" \o join(Tail(path), ".")))
                   ELSE CHOOSE out \in
                            {IF is_some(resolved)
                             THEN resolve_value_recursively(
                                      unwrap(resolved), imports,
                                      IF path[1] \in DOMAIN imports
                                      THEN imports[path[1]] ELSE main_doc,
                                      depth + 1)
                             ELSE Ok(value)
                               : resolved \in {resolve_reference(imports, path,
                                                                 main_doc)}} : TRUE
           [] value.t = "Array" ->
                resolve_array(<<>>, value.arr, imports, main_doc, depth)
           [] value.t = "Object" ->
                CHOOSE out \in
                    {IF flattened.ok THEN Ok(VObject(flattened.v)) ELSE flattened
                       : flattened \in {flatten_items(<<>>, value.items, imports,
                                                      main_doc, depth + 1)}} : TRUE
           [] OTHER -> Ok(value)

\* depth is the number of enclosing calls on the native stack.
resolve_value_recursively(value, imports, main_doc, depth) ==
    IF depth > StackLimit THEN StackOverflow
    ELSE CASE value.t = "Conditional" ->
                resolve_value_recursively(
                    evaluate_conditional(value, imports, main_doc),
                    imports, main_doc, depth + 1)
           [] value.t = "Reference" ->
                LET path == value.path
                IN IF Len(path) = 2 /\ path[1] = "env"
                   THEN IF is_some(env_var(path[2]))
                        THEN Ok(VString(unwrap(env_var(path[2]))))
                        ELSE Err("RuntimeError", 308)
                   ELSE IF Len(path) >= 1 /\ path[1] = "sys"
                   THEN Ok(VString("sys_placeholder:" \o join(Tail(path), ".")))
                   ELSE IF Len(path) >= 1 /\ path[1] = "runtime"
                   THEN Ok(VString("runtime_placeholder:" \o join(Tail(path), ".")))
                   ELSE CHOOSE out \in
                            {IF is_some(resolved)
                             THEN resolve_value_recursively(
                                      unwrap(resolved), imports, main_doc, depth + 1)
                             ELSE Ok(value)
                               : resolved \in {resolve_reference(imports, path,
                                                                 main_doc)}} : TRUE
           [] value.t = "Array" ->
                resolve_array(<<>>, value.arr, imports, main_doc, depth)
           [] value.t = "Object" ->
                CHOOSE out \in
                    {IF flattened.ok THEN Ok(VObject(flattened.v)) ELSE flattened
                       : flattened \in {flatten_items(<<>>, value.items, imports,
                                                      main_doc, depth + 1)}} : TRUE
           [] OTHER -> Ok(value)

\* resolve_array cloning the elements instead of resolving them.
resolve_array_cloned(resolved_array, arr, imports, main_doc, depth) ==
    Ok(VArray(resolved_array \o arr))

\* for item in arr { resolved_array.push(resolve_value_recursively(item)?) }
resolve_array(resolved_array, arr, imports, main_doc, depth) ==
    IF Len(arr) = 0 THEN Ok(VArray(resolved_array))
    ELSE CHOOSE out \in
             {IF ~r.ok THEN r
              ELSE resolve_array(Append(resolved_array, r.v), Tail(arr),
                                 imports, main_doc, depth)
                : r \in {resolve_value_recursively(arr[1], imports, main_doc,
                                                   depth + 1)}} : TRUE

\* flatten_items inserting each resolved assignment at the front of out.
flatten_items_front(out, items, imports, doc, depth) ==
    IF depth > StackLimit THEN StackOverflow
    ELSE IF Len(items) = 0 THEN Ok(out)
    ELSE IF items[1].t = "Assign"
    THEN CHOOSE o \in
             {IF ~rv.ok THEN rv
              ELSE flatten_items(<<Assign(items[1].k, rv.v)>> \o out,
                                 Tail(items), imports, doc, depth)
                : rv \in {resolve_value_recursively(items[1].v, imports, doc,
                                                    depth + 1)}} : TRUE
    ELSE CHOOSE o \in
             {IF ~inner.ok THEN inner
              ELSE flatten_items(inner.v, Tail(items), imports, doc, depth)
                : inner \in {flatten_items(out, take_branch(items[1], imports, doc),
                                           imports, doc, depth + 1)}} : TRUE

\* Returns Ok(out) with the items appended, or the first error.
flatten_items(out, items, imports, doc, depth) ==
    IF depth > StackLimit THEN StackOverflow
    ELSE IF Len(items) = 0 THEN Ok(out)
    ELSE IF items[1].t = "Assign"
    THEN CHOOSE o \in
             {IF ~rv.ok THEN rv
              ELSE flatten_items(Append(out, Assign(items[1].k, rv.v)),
                                 Tail(items), imports, doc, depth)
                : rv \in {resolve_value_recursively(items[1].v, imports, doc,
                                                    depth + 1)}} : TRUE
    ELSE CHOOSE o \in
             {IF ~inner.ok THEN inner
              ELSE flatten_items(inner.v, Tail(items), imports, doc, depth)
                : inner \in {flatten_items(out, take_branch(items[1], imports, doc),
                                           imports, doc, depth + 1)}} : TRUE

(***************************************************************************)
(* config/access.rs                                                         *)
(***************************************************************************)

main_doc_key == "main"

RECURSIVE assigns_of(_)
assigns_of(pairs) ==
    IF Len(pairs) = 0 THEN <<>>
    ELSE <<Assign(pairs[1][1], pairs[1][2])>> \o assigns_of(Tail(pairs))

\* temp_parser.imports: every stored document except the main one.
temp_imports(docs) == [a \in DOMAIN docs \ {main_doc_key} |-> docs[a]]

RECURSIVE lookup_path(_, _)
lookup_path(v, segs) ==
    IF Len(segs) = 0 THEN Some(v)
    ELSE IF v.t = "Object"
         THEN IF is_some(find_assign(v.items, segs[1]))
              THEN lookup_path(unwrap(find_assign(v.items, segs[1])), Tail(segs))
              ELSE None
         ELSE None

\* str::trim().is_empty()
RECURSIVE is_blank(_)
is_blank(s) ==
    IF Len(s) = 0 THEN TRUE
    ELSE SubSeq(s, 1, 1) \in {" ", "\t", "\n", "\r"} /\ is_blank(Tail(s))

root_items(main_doc) == assigns_of(main_doc.globals) \o assigns_of(main_doc.items)

\* The path looked up in the resolved root.
found_or_304(found) ==
    IF is_some(found) THEN Ok(unwrap(found)) ELSE Err("SyntaxError", 304)

get_value(docs, path) ==
    IF main_doc_key \notin DOMAIN docs THEN Err("SyntaxError", 305)
    ELSE CHOOSE out \in
             {IF ~resolved_root.ok THEN resolved_root
              ELSE IF is_blank(path) THEN resolved_root
              ELSE found_or_304(lookup_path(resolved_root.v, split(path, ".")))
                : resolved_root \in
                      {resolve_value_recursively(
                           VObject(root_items(docs[main_doc_key])),
                           temp_imports(docs), docs[main_doc_key], 0)}} : TRUE

RECURSIVE assign_keys(_)
assign_keys(items) ==
    IF Len(items) = 0 THEN <<>>
    ELSE IF items[1].t = "Assign"
         THEN <<items[1].k>> \o assign_keys(Tail(items))
         ELSE assign_keys(Tail(items))

get_keys(docs, path) ==
    CHOOSE out \in
        {IF ~value.ok THEN value
         ELSE IF value.v.t = "Object" THEN Ok(assign_keys(value.v.items))
         ELSE Err("TypeError", 306)
           : value \in {get_value(docs, path)}} : TRUE

(***************************************************************************)
(* config/conversion.rs                                                     *)
(***************************************************************************)

\* impl TryFrom<Value> for bool
try_from_bool(value) ==
    IF value.t = "Bool" THEN Ok(value.b) ELSE Err("TypeError", 404)

(***************************************************************************)
(* config/conversion.rs: the sized integers.  Here the f64 of a Number and  *)
(* the integers converted to are written in binary: neg is the sign and mag *)
(* the set of the positions of the binary digits that are 1, so 255 is      *)
(* [neg |-> FALSE, mag |-> 0..7].                                           *)
(***************************************************************************)

Binary(neg, mag) == [neg |-> neg /\ mag # {}, mag |-> mag]

top_bit(mag) == CHOOSE b \in mag : \A c \in mag : c <= b

low_bit(mag) == CHOOSE b \in mag : \A c \in mag : c >= b

\* a < b for magnitudes: the highest digit in which they differ is b's.
mag_less(a, b) ==
    /\ a # b
    /\ top_bit((a \ b) \cup (b \ a)) \in b

\* a < b and a <= b for numbers.
less(a, b) ==
    CASE a.neg /\ ~b.neg -> TRUE
      [] ~a.neg /\ b.neg -> FALSE
      [] a.neg /\ b.neg -> mag_less(b.mag, a.mag)
      [] OTHER -> mag_less(a.mag, b.mag)

less_eq(a, b) == a = b \/ less(a, b)

RECURSIVE add_bit(_, _)
\* mag + 2^b, the carry rippling upwards.
add_bit(mag, b) ==
    IF b \in mag THEN add_bit(mag \ {b}, b + 1) ELSE mag \cup {b}

\* An f64 holds 53 significant binary digits.
Mantissa == 53

is_f64(n) == n.mag = {} \/ top_bit(n.mag) - low_bit(n.mag) < Mantissa

\* `<integer> as f64`: round to nearest, ties to even.
as_f64(n) ==
    IF is_f64(n) THEN n
    ELSE LET last == top_bit(n.mag) - (Mantissa - 1)
             kept == {b \in n.mag : b >= last}
             rest == {b \in n.mag : b < last}
             up   == /\ (last - 1) \in rest
                     /\ (rest # {last - 1} \/ last \in kept)
         IN  Binary(n.neg, IF up THEN add_bit(kept, last) ELSE kept)

\* T::MIN and T::MAX
int_min(T) ==
    CASE T = "i32" -> Binary(TRUE, {31})
      [] T = "i64" -> Binary(TRUE, {63})
      [] OTHER -> Binary(FALSE, {})

int_max(T) ==
    CASE T = "u8" -> Binary(FALSE, 0..7)
      [] T = "u16" -> Binary(FALSE, 0..15)
      [] T = "u32" -> Binary(FALSE, 0..31)
      [] T = "u64" -> Binary(FALSE, 0..63)
      [] T = "i32" -> Binary(FALSE, 0..30)
      [] T = "i64" -> Binary(FALSE, 0..62)

\* `n as T` for an integer-valued f64: the cast saturates.
cast(n, T) ==
    IF less(n, int_min(T)) THEN int_min(T)
    ELSE IF less(int_max(T), n) THEN int_max(T)
    ELSE n

\* The code of the TypeError of a number out of the range of T.
out_of_range(T) ==
    CASE T = "u8" -> 407
      [] T = "u16" -> 403
      [] T = "u32" -> 408
      [] T = "u64" -> 406

\* impl TryFrom<Value> for i32, i64
try_from_signed(value, T) ==
    IF value.t = "Number" THEN Ok(cast(value.n, T)) ELSE Err("TypeError", 402)

\* impl TryFrom<Value> for u8, u16, u32, u64
try_from_unsigned(value, T) ==
    IF value.t = "Number"
    THEN IF less_eq(Binary(FALSE, {}), value.n) /\ less_eq(value.n, as_f64(int_max(T)))
         THEN Ok(cast(value.n, T))
         ELSE Err("TypeError", out_of_range(T))
    ELSE Err("TypeError", 402)

try_from_int(value, T) ==
    IF T \in {"i32", "i64"} THEN try_from_signed(value, T)
    ELSE try_from_unsigned(value, T)

(***************************************************************************)
(* config/access.rs: get_value_flexible, get, get_optional, has             *)
(***************************************************************************)

\* The characters of keys in the order of their code points.
CodePoints ==
    "-0123456789ABCDEFGHIJKLMNOPQRSTUVWXYZ_abcdefghijklmnopqrstuvwxyz"

code_point(ch) == CHOOSE i \in 1..Len(CodePoints) : SubSeq(CodePoints, i, i) = ch

\* a < b for Strings (Ord for str).
RECURSIVE str_less(_, _)
str_less(a, b) ==
    IF Len(b) = 0 THEN FALSE
    ELSE IF Len(a) = 0 THEN TRUE
    ELSE IF SubSeq(a, 1, 1) = SubSeq(b, 1, 1) THEN str_less(Tail(a), Tail(b))
    ELSE code_point(SubSeq(a, 1, 1)) < code_point(SubSeq(b, 1, 1))

\* str::replace(from, to) for single characters
RECURSIVE replace(_, _, _)
replace(s, from, to) ==
    IF Len(s) = 0 THEN ""
    ELSE (IF SubSeq(s, 1, 1) = from THEN to ELSE SubSeq(s, 1, 1))
            \o replace(Tail(s), from, to)

\* out.sort(); out.dedup(); for the Strings pushed
RECURSIVE sort_dedup(_)
sort_dedup(pushed) ==
    IF pushed = {} THEN <<>>
    ELSE LET least == CHOOSE a \in pushed : \A b \in pushed \ {a} : str_less(a, b)
         IN  <<least>> \o sort_dedup(pushed \ {least})

\* variants picking the forms in the order pushed: the segment, its snake
\* form, its kebab form.
variants_as_pushed(seg) ==
    <<seg>> \o (IF replace(seg, "-", "_") # seg THEN <<replace(seg, "-", "_")>> ELSE <<>>)
            \o (IF replace(seg, "_", "-") # seg THEN <<replace(seg, "_", "-")>> ELSE <<>>)

variants(seg) == sort_dedup({seg, replace(seg, "-", "_"), replace(seg, "_", "-")})

RECURSIVE dfs(_, _, _, _)
RECURSIVE dfs_variants(_, _, _, _, _)
\* fn dfs(cfg, segs, i, cur)
dfs(docs, segs, i, cur) ==
    IF i = Len(segs) + 1 THEN get_value(docs, join(cur, "."))
    ELSE dfs_variants(docs, segs, i, cur, variants(segs[i]))

\* for v in variants(segs[i]) { ... } and the error after the loop
dfs_variants(docs, segs, i, cur, vs) ==
    IF Len(vs) = 0 THEN Err("SyntaxError", 304)
    ELSE CHOOSE out \in
             {IF val.ok THEN val ELSE dfs_variants(docs, segs, i, cur, Tail(vs))
                : val \in {dfs(docs, segs, i + 1, Append(cur, vs[1]))}} : TRUE

get_value_flexible(docs, path) ==
    CHOOSE out \in
        {IF exact.ok THEN exact
         ELSE IF is_blank(path) THEN exact
         ELSE dfs(docs, split(path, "."), 1, <<>>)
           : exact \in {get_value(docs, path)}} : TRUE

\* impl TryFrom<Value> for String
try_from_string(value) ==
    IF value.t = "String" THEN Ok(value.s) ELSE Err("TypeError", 401)

\* T::try_from(value)
try_from(value, T) ==
    IF T = "bool" THEN try_from_bool(value)
    ELSE IF T = "String" THEN try_from_string(value)
    ELSE try_from_int(value, T)

\* RuneConfig::get::<T>(path)
get(docs, path, T) ==
    CHOOSE out \in
        {IF value.ok THEN try_from(value.v, T) ELSE value
           : value \in {get_value_flexible(docs, path)}} : TRUE

\* The Ok arm of get_optional: Ok(Some(T::try_from(value)?))
some_converted(converted) ==
    IF converted.ok THEN Ok(Some(converted.v)) ELSE converted

\* RuneConfig::get_optional::<T>(path)
get_optional(docs, path, T) ==
    CHOOSE out \in
        {IF value.ok THEN some_converted(try_from(value.v, T))
         ELSE IF value.kind = "SyntaxError" /\ value.code = 304 THEN Ok(None)
         ELSE value
           : value \in {get_value_flexible(docs, path)}} : TRUE

\* RuneConfig::has(path)
has(docs, path) == get_value_flexible(docs, path).ok

(***************************************************************************)
(* lexer: Token                                                             *)
(***************************************************************************)

TIdent(s) == [k |-> "Ident", s |-> s]

TString(s) == [k |-> "String", s |-> s]

TRegex(s) == [k |-> "Regex", s |-> s]

TNumber(n) == [k |-> "Number", n |-> n]

TBool(b) == [k |-> "Bool", b |-> b]

\* The payload-free tokens: Null, Colon, Equals, LBracket, RBracket, End,
\* EndIf, Dollar, Dot, At, Gather, As, If, Else, ElseIf, Newline, Eof.
Tok(kind) == [k |-> kind]

(***************************************************************************)
(* parser/mod.rs: the token stream with one token of lookahead.  The lexer  *)
(* returns Eof for ever once the input is exhausted.                        *)
(***************************************************************************)

peek(toks) == IF Len(toks) = 0 THEN Tok("Eof") ELSE toks[1]

bump(toks) == IF Len(toks) = 0 THEN toks ELSE Tail(toks)

\* A successful parse step: the value and the tokens left.
POk(x, rest) == [ok |-> TRUE, v |-> x, rest |-> rest]

(***************************************************************************)
(* resolver.rs: expand_dollar_string                                        *)
(***************************************************************************)

char_at(s, i) == SubSeq(s, i, i)

RECURSIVE contains(_, _)
contains(s, ch) ==
    IF Len(s) = 0 THEN FALSE
    ELSE char_at(s, 1) = ch \/ contains(Tail(s), ch)

Letters ==
    {"a", "b", "c", "d", "e", "f", "g", "h", "i", "j", "k", "l", "m", "n",
     "o", "p", "q", "r", "s", "t", "u", "v", "w", "x", "y", "z",
     "A", "B", "C", "D", "E", "F", "G", "H", "I", "J", "K", "L", "M", "N",
     "O", "P", "Q", "R", "S", "T", "U", "V", "W", "X", "Y", "Z"}

Digits == {"0", "1", "2", "3", "4", "5", "6", "7", "8", "9"}

is_path_char(ch) == ch \in Letters \cup Digits \cup {"_", "-"}

\* Index just after the run of identifier characters that starts at i.
RECURSIVE ident_end(_, _)
ident_end(s, i) ==
    IF i <= Len(s) /\ is_path_char(char_at(s, i)) THEN ident_end(s, i + 1) ELSE i

\* The `.segment` extensions that follow the namespace; i is the next index.
RECURSIVE dollar_segments(_, _, _)
dollar_segments(s, i, path) ==
    IF i <= Len(s) /\ char_at(s, i) = "."
    THEN CHOOSE out \in
             {IF e = i + 1 THEN Err("SyntaxError", 210)
              ELSE dollar_segments(s, e, Append(path, SubSeq(s, i + 1, e - 1)))
                : e \in {ident_end(s, i + 1)}} : TRUE
    ELSE [ok |-> TRUE, v |-> path, next |-> i]

\* The path after a `$` at index i - 1.
dollar_path(s, i) ==
    CHOOSE out \in {dollar_segments(s, e, <<SubSeq(s, i, e - 1)>>)
                      : e \in {ident_end(s, i)}} : TRUE

\* The text that replaces the reference with path p inside a string.
replacement_of(p) ==
    CASE p[1] = "env" -> resolve_env(p)
      [] p[1] = "sys" -> resolve_sys(p)
      [] OTHER -> Ok("$" \o join(p, "."))

RECURSIVE interpolate(_, _, _)
RECURSIVE interpolate_reference(_, _, _)

interpolate(s, i, result) ==
    IF i > Len(s) THEN Ok(VString(result))
    ELSE IF char_at(s, i) = "$"
         THEN CHOOSE out \in {interpolate_reference(s, p, result)
                                : p \in {dollar_path(s, i + 1)}} : TRUE
         ELSE interpolate(s, i + 1, result \o char_at(s, i))

\* The reference with path p was read; its replacement is appended.
interpolate_reference(s, p, result) ==
    IF ~p.ok THEN p
    ELSE CHOOSE out \in
             {IF ~replacement.ok THEN replacement
              ELSE interpolate(s, p.next, result \o replacement.v)
                : replacement \in {replacement_of(p.v)}} : TRUE

\* The string is one reference with path p.
whole_reference(p) ==
    IF ~p.ok THEN p
    ELSE CASE p.v[1] = "env" -> string_value(resolve_env(p.v))
           [] p.v[1] = "sys" -> string_value(resolve_sys(p.v))
           [] OTHER -> Ok(VReference(p.v))

expand_dollar_string(s) ==
    IF ~contains(s, "$") THEN Ok(VString(s))
    ELSE IF char_at(s, 1) = "$" /\ ~contains(Tail(s), " ") /\ ~contains(Tail(s), "/")
    THEN whole_reference(dollar_path(s, 2))
    ELSE interpolate(s, 1, "")

(***************************************************************************)
(* lexer/mod.rs: Lexer.  input is the whole text and pos the index of the   *)
(* character held in peek; past the end of the text peek is None.           *)
(***************************************************************************)

\* Lexer::new
Lexer(input) == [input |-> input, pos |-> 1, line |-> 1, column |-> 0]

\* lexer.peek
lexer_peek(lexer) ==
    IF lexer.pos <= Len(lexer.input) THEN Some(char_at(lexer.input, lexer.pos))
    ELSE None

\* lexer.input.clone().next(): the character after the one in peek.
lexer_second(lexer) ==
    IF lexer.pos + 1 <= Len(lexer.input)
    THEN Some(char_at(lexer.input, lexer.pos + 1))
    ELSE None

\* A call of the lexer: the lexer it leaves and the Result it returns.
Lexed(lexer, out) == [lexer |-> lexer, out |-> out]

(***************************************************************************)
(* lexer/scanner.rs                                                         *)
(***************************************************************************)

\* scanner::bump
scanner_bump(lexer) ==
    IF lexer.pos > Len(lexer.input) THEN lexer
    ELSE IF char_at(lexer.input, lexer.pos) = "\n"
    THEN [lexer EXCEPT !.pos = @ + 1, !.line = @ + 1, !.column = 0]
    ELSE [lexer EXCEPT !.pos = @ + 1, !.column = @ + 1]

\* while let Some(ch) = bump(lexer) { if ch == '\n' { break; } }
RECURSIVE skip_comment(_)
skip_comment(lexer) ==
    IF is_none(lexer_peek(lexer)) THEN lexer
    ELSE IF lexer_peek(lexer) = Some("\n") THEN scanner_bump(lexer)
    ELSE skip_comment(scanner_bump(lexer))

RECURSIVE skip_whitespace_and_comments(_, _)
skip_whitespace_and_comments(lexer, skip_newlines) ==
    IF lexer_peek(lexer) \in {Some(" "), Some("\t")}
    THEN skip_whitespace_and_comments(scanner_bump(lexer), skip_newlines)
    ELSE IF lexer_peek(lexer) = Some("\n") /\ skip_newlines
    THEN skip_whitespace_and_comments(scanner_bump(lexer), skip_newlines)
    ELSE IF lexer_peek(lexer) = Some("#")
    THEN skip_whitespace_and_comments(skip_comment(lexer), skip_newlines)
    ELSE lexer

(***************************************************************************)
(* lexer/tokenizer.rs                                                       *)
(***************************************************************************)

tokenize_newline(lexer) == Lexed(scanner_bump(lexer), Ok(Tok("Newline")))

tokenize_symbol(lexer, token) == Lexed(scanner_bump(lexer), Ok(token))

\* The lexer after it bumped the characters up to index e, none a newline.
bumped_to(lexer, e) ==
    [lexer EXCEPT !.pos = e, !.column = @ + (e - lexer.pos)]

RECURSIVE regex_body(_, _)
RECURSIVE regex_escape(_, _)

\* The loop of tokenize_regex_literal: content is what was read so far.
regex_body(lexer, content) ==
    IF is_none(lexer_peek(lexer)) THEN Lexed(lexer, Ok(TRegex(content)))
    ELSE IF lexer_peek(lexer) = Some("\"")
    THEN Lexed(scanner_bump(lexer), Ok(TRegex(content)))
    ELSE IF lexer_peek(lexer) = Some("\\")
    THEN regex_escape(scanner_bump(lexer), content \o "\\")
    ELSE regex_body(scanner_bump(lexer), content \o unwrap(lexer_peek(lexer)))

\* A backslash was read and kept; the character after it is kept as it is.
regex_escape(lexer, content) ==
    IF is_none(lexer_peek(lexer)) THEN Lexed(lexer, Err("UnclosedString", 103))
    ELSE regex_body(scanner_bump(lexer), content \o unwrap(lexer_peek(lexer)))

tokenize_regex_literal(lexer) ==
    regex_body(scanner_bump(scanner_bump(lexer)), "")

tokenize_identifier_starting_with_r(lexer) ==
    CHOOSE out \in
        {Lexed(bumped_to(lexer, e),
               Ok(TIdent(SubSeq(lexer.input, lexer.pos, e - 1))))
           : e \in {ident_end(lexer.input, lexer.pos + 1)}} : TRUE

tokenize_regex_or_ident(lexer) ==
    IF lexer_second(lexer) = Some("\"") THEN tokenize_regex_literal(lexer)
    ELSE tokenize_identifier_starting_with_r(lexer)

\* The character an escape sequence \ch stands for.
escaped(ch) ==
    CASE ch = "n" -> "\n"
      [] ch = "t" -> "\t"
      [] ch = "r" -> "\r"
      [] OTHER -> ch

\* str::ends_with(char)
ends_with(s, ch) == Len(s) > 0 /\ char_at(s, Len(s)) = ch

\* The check after the loop of tokenize_string.
string_end(lexer, quote, content) ==
    IF is_none(lexer_peek(lexer)) /\ ~ends_with(content, quote)
    THEN Lexed(lexer, Err("UnclosedString", 103))
    ELSE Lexed(lexer, Ok(TString(content)))

RECURSIVE string_body(_, _, _)
RECURSIVE string_escape(_, _, _)

\* The loop of tokenize_string: content is what was read so far.
string_body(lexer, quote, content) ==
    IF is_none(lexer_peek(lexer)) THEN string_end(lexer, quote, content)
    ELSE IF lexer_peek(lexer) = Some(quote)
    THEN string_end(scanner_bump(lexer), quote, content)
    ELSE IF lexer_peek(lexer) = Some("\\")
    THEN string_escape(scanner_bump(lexer), quote, content)
    ELSE string_body(scanner_bump(lexer), quote,
                     content \o unwrap(lexer_peek(lexer)))

\* A backslash was consumed; the character after it is unescaped.
string_escape(lexer, quote, content) ==
    IF is_none(lexer_peek(lexer)) THEN Lexed(lexer, Err("UnclosedString", 103))
    ELSE string_body(scanner_bump(lexer), quote,
                     content \o escaped(unwrap(lexer_peek(lexer))))

tokenize_string(lexer) ==
    string_body(scanner_bump(lexer), unwrap(lexer_peek(lexer)), "")

\* Index just after the run of digits and dots that starts at i.
RECURSIVE number_end(_, _)
number_end(s, i) ==
    IF i <= Len(s) /\ char_at(s, i) \in Digits \cup {"."}
    THEN number_end(s, i + 1) ELSE i

digit_value(ch) ==
    CASE ch = "0" -> 0 [] ch = "1" -> 1 [] ch = "2" -> 2 [] ch = "3" -> 3
      [] ch = "4" -> 4 [] ch = "5" -> 5 [] ch = "6" -> 6 [] ch = "7" -> 7
      [] ch = "8" -> 8 [] ch = "9" -> 9

\* The number a run of digits denotes.
RECURSIVE decimal(_, _)
decimal(digits, acc) ==
    IF Len(digits) = 0 THEN acc
    ELSE decimal(Tail(digits), 10 * acc + digit_value(char_at(digits, 1)))

\* The digits of a fraction without its trailing zeros.
RECURSIVE significant(_)
significant(digits) ==
    IF ends_with(digits, "0") THEN significant(SubSeq(digits, 1, Len(digits) - 1))
    ELSE digits

\* str::parse::<f64> on a run of digits and dots that starts with a digit.  A
\* whole number is an integer; a number with a fraction is its whole part
\* and the significant digits of the fraction.
parse_f64(num) ==
    CHOOSE out \in
        {IF Len(parts) > 2 THEN Err("TypeError", 102)
         ELSE IF Len(parts) = 1 \/ significant(parts[2]) = ""
         THEN Ok(TNumber(decimal(parts[1], 0)))
         ELSE Ok(TNumber([whole |-> decimal(parts[1], 0),
                          fraction |-> significant(parts[2])]))
           : parts \in {split(num, ".")}} : TRUE

tokenize_number(lexer) ==
    CHOOSE out \in
        {Lexed(bumped_to(lexer, e), parse_f64(SubSeq(lexer.input, lexer.pos, e - 1)))
           : e \in {number_end(lexer.input, lexer.pos)}} : TRUE

\* The match of tokenize_identifier_or_keyword on the word read.
keyword_or_ident(ident) ==
    CASE ident = "true" -> TBool(TRUE)
      [] ident = "false" -> TBool(FALSE)
      [] ident = "end" -> Tok("End")
      [] ident = "gather" -> Tok("Gather")
      [] ident = "as" -> Tok("As")
      [] ident \in {"null", "None"} -> Tok("Null")
      [] OTHER -> TIdent(ident)

tokenize_identifier_or_keyword(lexer) ==
    CHOOSE out \in
        {Lexed(bumped_to(lexer, e),
               Ok(keyword_or_ident(SubSeq(lexer.input, lexer.pos, e - 1))))
           : e \in {ident_end(lexer.input, lexer.pos)}} : TRUE

tokenize_unexpected_char(lexer, ch) ==
    Lexed(scanner_bump(lexer), Err("UnexpectedCharacter", 104))

RECURSIVE next_token_with_flag(_, _)
RECURSIVE token_at(_, _, _)

next_token_with_flag(lexer, skip_newlines) ==
    CHOOSE out \in
        {IF is_none(lexer_peek(skipped)) THEN Lexed(skipped, Ok(Tok("Eof")))
         ELSE token_at(skipped, unwrap(lexer_peek(skipped)), skip_newlines)
           : skipped \in {skip_whitespace_and_comments(lexer, skip_newlines)}} : TRUE

\* The match of next_token_with_flag on the character c in peek.
token_at(lexer, c, skip_newlines) ==
    IF c = "\n" THEN tokenize_newline(lexer)
    ELSE IF c = ":" THEN tokenize_symbol(lexer, Tok("Colon"))
    ELSE IF c = "=" THEN tokenize_symbol(lexer, Tok("Equals"))
    ELSE IF c = "[" THEN tokenize_symbol(lexer, Tok("LBracket"))
    ELSE IF c = "]" THEN tokenize_symbol(lexer, Tok("RBracket"))
    ELSE IF c = "," THEN next_token_with_flag(scanner_bump(lexer), skip_newlines)
    ELSE IF c = "$" THEN tokenize_symbol(lexer, Tok("Dollar"))
    ELSE IF c = "." THEN tokenize_symbol(lexer, Tok("Dot"))
    ELSE IF c = "@" THEN tokenize_symbol(lexer, Tok("At"))
    ELSE IF c = "r" THEN tokenize_regex_or_ident(lexer)
    ELSE IF c \in {"\"", "'"} THEN tokenize_string(lexer)
    ELSE IF c \in Digits THEN tokenize_number(lexer)
    ELSE IF c \in Letters THEN tokenize_identifier_or_keyword(lexer)
    ELSE tokenize_unexpected_char(lexer, c)

\* Lexer::next_token
next_token(lexer) == next_token_with_flag(lexer, FALSE)

\* Lexer::next_token_in_array
next_token_in_array(lexer) == next_token_with_flag(lexer, TRUE)

(***************************************************************************)
(* parser/mod.rs: Parser::new and bump draw the tokens from next_token, one *)
(* ahead of the parser.  tokens is the stream up to Eof; an error of the    *)
(* lexer ends the parse when the parser bumps the token before it.          *)
(***************************************************************************)

RECURSIVE tokens_from(_, _)
tokens_from(lexer, toks) ==
    CHOOSE out \in
        {IF ~r.out.ok THEN r.out
         ELSE IF r.out.v.k = "Eof" THEN Ok(toks)
         ELSE tokens_from(r.lexer, Append(toks, r.out.v))
           : r \in {next_token(lexer)}} : TRUE

tokens(input) == tokens_from(Lexer(input), <<>>)

(***************************************************************************)
(* parser/value.rs                                                          *)
(***************************************************************************)

\* while let Some(Token::Dot) = peek { bump; Ident(name) => path.push(name) }
RECURSIVE dotted_path(_, _)
dotted_path(path, toks) ==
    IF peek(toks).k = "Dot"
    THEN IF peek(bump(toks)).k = "Ident"
         THEN dotted_path(Append(path, peek(bump(toks)).s), bump(bump(toks)))
         ELSE Err("SyntaxError", 210)
    ELSE POk(path, toks)

\* The namespace was read; p is the dotted path that follows it.
dollar_reference_of(p) ==
    IF ~p.ok THEN p
    ELSE CHOOSE out \in {IF r.ok THEN POk(r.v, p.rest) ELSE r
                           : r \in {parse_dollar_reference(p.v)}} : TRUE

parse_dollar_reference_value(toks) ==
    CHOOSE out \in
        {IF peek(after).k # "Ident" THEN Err("SyntaxError", 209)
         ELSE IF peek(after).s \notin dollar_namespaces THEN Err("SyntaxError", 209)
         ELSE CHOOSE o \in {dollar_reference_of(p)
                              : p \in {dotted_path(<<peek(after).s>>, bump(after))}} : TRUE
           : after \in {bump(toks)}} : TRUE

parse_reference_value(toks) ==
    CHOOSE out \in {IF p.ok THEN POk(VReference(p.v), p.rest) ELSE p
                      : p \in {dotted_path(<<peek(toks).s>>, bump(toks))}} : TRUE

parse_string_value(toks) ==
    CHOOSE out \in {IF r.ok THEN POk(r.v, bump(toks)) ELSE r
                      : r \in {expand_dollar_string(peek(toks).s)}} : TRUE

RECURSIVE parse_value(_)
RECURSIVE parse_array_value(_, _)
RECURSIVE parse_assignment(_)
RECURSIVE nested_object(_, _)

parse_value(toks) ==
    CHOOSE out \in
        {CASE tok.k = "String" -> parse_string_value(toks)
           [] tok.k = "Number" -> POk(VNumber(tok.n), bump(toks))
           [] tok.k = "Bool" -> POk(VBool(tok.b), bump(toks))
           [] tok.k = "Regex" -> POk(VRegex(tok.s), bump(toks))
           [] tok.k = "Dollar" -> parse_dollar_reference_value(toks)
           [] tok.k = "Ident" -> parse_reference_value(toks)
           [] tok.k = "LBracket" -> parse_array_value(<<>>, bump(toks))
           [] tok.k = "Null" -> POk(VNull, bump(toks))
           [] OTHER -> Err("InvalidToken", 210)
           : tok \in {peek(toks)}} : TRUE

\* The loop of parse_array_value, after `[` was consumed.
parse_array_value(arr, toks) ==
    CASE peek(toks).k = "RBracket" -> POk(VArray(arr), bump(toks))
      [] peek(toks).k = "Newline" -> parse_array_value(arr, bump(toks))
      [] OTHER ->
           CHOOSE out \in {IF r.ok THEN parse_array_value(Append(arr, r.v), r.rest)
                           ELSE r
                             : r \in {parse_value(toks)}} : TRUE

\* The value parsed for key: the pair <<key, value>> or the error.
keyed(key, r) == IF r.ok THEN POk(<<key, r.v>>, r.rest) ELSE r

\* Returns the pair <<key, value>>.
parse_assignment(toks) ==
    IF peek(toks).k # "Ident" THEN Err("SyntaxError", 208)
    ELSE CHOOSE out \in
             {CASE peek(after).k = "Colon" ->
                     CHOOSE o \in {IF r.ok THEN POk(<<peek(toks).s, VObject(r.v)>>, r.rest)
                                   ELSE r
                                     : r \in {nested_object(<<>>, bump(after))}} : TRUE
                [] peek(after).k = "Equals" ->
                     CHOOSE o \in {keyed(peek(toks).s, r)
                                     : r \in {parse_value(bump(after))}} : TRUE
                [] OTHER ->
                     CHOOSE o \in {keyed(peek(toks).s, r)
                                     : r \in {parse_value(after)}} : TRUE
                : after \in {bump(toks)}} : TRUE

\* The body loop of a nested `key:` block inside parse_assignment.
nested_object(items, toks) ==
    CASE peek(toks).k = "Ident" ->
           CHOOSE out \in
               {IF r.ok
                THEN nested_object(Append(items, Assign(r.v[1], r.v[2])), r.rest)
                ELSE r
                  : r \in {parse_assignment(toks)}} : TRUE
      [] peek(toks).k = "End" -> POk(items, bump(toks))
      [] peek(toks).k = "Newline" -> nested_object(items, bump(toks))
      [] OTHER -> Err("InvalidToken", 207)

(***************************************************************************)
(* parser/conditional.rs                                                    *)
(***************************************************************************)

\* toks starts at the condition's identifier.
parse_condition(toks) ==
    IF peek(toks).k # "Ident" THEN Err("SyntaxError", 214)
    ELSE IF peek(bump(toks)).k = "Equals"
         THEN CHOOSE out \in
                  {IF r.ok THEN POk(Equals(peek(toks).s, r.v), r.rest) ELSE r
                     : r \in {parse_value(bump(bump(toks)))}} : TRUE
         ELSE POk(Exists(peek(toks).s), bump(toks))

RECURSIVE parse_if_block(_)
RECURSIVE parse_object_items_until(_, _, _)

\* The else branch el was parsed: `endif` has to follow.
if_block_with_else(c, th, el) ==
    IF ~el.ok THEN el
    ELSE IF peek(el.rest).k # "EndIf" THEN Err("SyntaxError", 214)
    ELSE POk(IfBlock(c.v, th.v, Some(el.v)), bump(el.rest))

\* The then branch th was parsed: `else:` and its items, or `endif`, follow.
if_block_after_then(c, th) ==
    IF ~th.ok THEN th
    ELSE IF peek(th.rest).k = "Else"
    THEN IF peek(bump(th.rest)).k # "Colon" THEN Err("SyntaxError", 214)
         ELSE CHOOSE out \in
                  {if_block_with_else(c, th, el)
                     : el \in {parse_object_items_until(
                                   <<>>, bump(bump(th.rest)), "EndIfOnly")}} : TRUE
    ELSE IF peek(th.rest).k # "EndIf" THEN Err("SyntaxError", 214)
    ELSE POk(IfBlock(c.v, th.v, None), bump(th.rest))

\* The condition c was parsed: `:` and the then branch follow.
if_block_after_condition(c) ==
    IF ~c.ok THEN c
    ELSE IF peek(c.rest).k # "Colon" THEN Err("SyntaxError", 214)
    ELSE CHOOSE out \in
             {if_block_after_then(c, th)
                : th \in {parse_object_items_until(
                              <<>>, bump(c.rest), "ElseOrEndIf")}} : TRUE

\* toks starts at `if`.
parse_if_block(toks) ==
    CHOOSE out \in {if_block_after_condition(c)
                      : c \in {parse_condition(bump(toks))}} : TRUE

parse_object_items_until(items, toks, stop) ==
    CASE peek(toks).k = "Newline" -> parse_object_items_until(items, bump(toks), stop)
      [] peek(toks).k = "Ident" ->
           CHOOSE out \in
               {IF r.ok
                THEN parse_object_items_until(
                         Append(items, Assign(r.v[1], r.v[2])), r.rest, stop)
                ELSE r
                  : r \in {parse_assignment(toks)}} : TRUE
      [] peek(toks).k = "If" ->
           CHOOSE out \in
               {IF r.ok
                THEN parse_object_items_until(Append(items, r.v), r.rest, stop)
                ELSE r
                  : r \in {parse_if_block(toks)}} : TRUE
      [] peek(toks).k = "Else" ->
           IF stop = "ElseOrEndIf" THEN POk(items, toks)
           ELSE Err("InvalidToken", 207)
      [] peek(toks).k = "EndIf" -> POk(items, toks)
      [] peek(toks).k = "End" -> Err("SyntaxError", 214)
      [] OTHER -> Err("InvalidToken", 207)

(***************************************************************************)
(* parser/document.rs                                                       *)
(***************************************************************************)

EmptyDocument == Document(<<>>, <<>>, <<>>)

\* The body loop of a top-level `key:` block.
RECURSIVE top_level_block(_, _)
top_level_block(object_items, toks) ==
    CASE peek(toks).k = "Ident" ->
           CHOOSE out \in
               {IF r.ok
                THEN top_level_block(
                         Append(object_items, Assign(r.v[1], r.v[2])), r.rest)
                ELSE r
                  : r \in {parse_assignment(toks)}} : TRUE
      [] peek(toks).k = "If" ->
           CHOOSE out \in
               {IF r.ok THEN top_level_block(Append(object_items, r.v), r.rest)
                ELSE r
                  : r \in {parse_if_block(toks)}} : TRUE
      [] peek(toks).k = "End" -> POk(object_items, bump(toks))
      [] peek(toks).k = "Newline" -> top_level_block(object_items, bump(toks))
      [] OTHER -> Err("InvalidToken", 207)

\* The value r parsed for a top-level key is pushed to the globals.
push_global(doc, key, r) ==
    IF r.ok THEN POk([doc EXCEPT !.globals = Append(@, <<key, r.v>>)], r.rest)
    ELSE r

\* toks starts at the key; v is the document with the item pushed.
parse_top_level_item(toks, doc) ==
    CHOOSE out \in
        {CASE peek(after).k = "Colon" ->
                CHOOSE o \in
                    {IF r.ok
                     THEN POk([doc EXCEPT
                                  !.items = Append(@, <<peek(toks).s, VObject(r.v)>>)],
                              r.rest)
                     ELSE r
                       : r \in {top_level_block(<<>>, bump(after))}} : TRUE
           [] peek(after).k = "Equals" ->
                CHOOSE o \in {push_global(doc, peek(toks).s, r)
                                : r \in {parse_value(bump(after))}} : TRUE
           [] OTHER ->
                CHOOSE o \in {push_global(doc, peek(toks).s, r)
                                : r \in {parse_value(after)}} : TRUE
           : after \in {bump(toks)}} : TRUE

\* toks starts at `@`.
parse_metadata(toks, doc) ==
    IF peek(bump(toks)).k # "Ident" THEN Err("SyntaxError", 203)
    ELSE CHOOSE out \in
             {IF r.ok
              THEN POk([doc EXCEPT !.metadata =
                            Append(@, <<peek(bump(toks)).s, r.v>>)], r.rest)
              ELSE r
                : r \in {parse_value(bump(bump(toks)))}} : TRUE

\* Index of the last occurrence of ch in s, 0 when there is none.
RECURSIVE last_index(_, _, _)
last_index(s, ch, i) ==
    IF i = 0 THEN 0
    ELSE IF char_at(s, i) = ch THEN i ELSE last_index(s, ch, i - 1)

\* Path::file_stem(): the last component without its extension.
file_stem(filename) ==
    LET slash == last_index(filename, "/", Len(filename))
        name == SubSeq(filename, slash + 1, Len(filename))
        dot == last_index(name, ".", Len(name))
    IN IF name = "" \/ name = ".." THEN None
       ELSE IF dot <= 1 THEN Some(name)
       ELSE Some(SubSeq(name, 1, dot - 1))

\* toks starts at `gather`; v is the alias the statement declares.
parse_gather_statement(toks) ==
    LET after == bump(toks)
    IN IF peek(after).k # "String" THEN Err("SyntaxError", 211)
       ELSE LET filename == peek(after).s
                rest == bump(after)
            IN IF peek(rest).k = "As"
               THEN IF peek(bump(rest)).k = "Ident"
                    THEN POk(peek(bump(rest)).s, bump(bump(rest)))
                    ELSE Err("SyntaxError", 212)
               ELSE POk(IF is_some(file_stem(filename))
                        THEN unwrap(file_stem(filename)) ELSE "imported", rest)

\* v is the Document and the placeholder import table of the parser.
RECURSIVE parse_document_loop(_, _, _)
parse_document_loop(toks, doc, imports) ==
    CASE peek(toks).k = "Newline" -> parse_document_loop(bump(toks), doc, imports)
      [] peek(toks).k = "Eof" -> Ok([doc |-> doc, imports |-> imports])
      [] peek(toks).k = "At" ->
           CHOOSE out \in
               {IF r.ok THEN parse_document_loop(r.rest, r.v, imports) ELSE r
                  : r \in {parse_metadata(toks, doc)}} : TRUE
      [] peek(toks).k = "Ident" ->
           CHOOSE out \in
               {IF r.ok THEN parse_document_loop(r.rest, r.v, imports) ELSE r
                  : r \in {parse_top_level_item(toks, doc)}} : TRUE
      [] peek(toks).k = "Gather" ->
           CHOOSE out \in
               {IF ~r.ok THEN r
                ELSE parse_document_loop(
                         r.rest, doc,
                         IF r.v \in DOMAIN imports THEN imports
                         ELSE (r.v :> EmptyDocument) @@ imports)
                  : r \in {parse_gather_statement(toks)}} : TRUE
      [] peek(toks).k = "Dollar" -> Err("SyntaxError", 213)
      [] OTHER -> Err("InvalidToken", 205)

parse_document(toks) == parse_document_loop(toks, EmptyDocument, <<>>)

(***************************************************************************)
(* config/mod.rs: RuneConfig::from_str, up to the Document it stores        *)
(***************************************************************************)

from_str(content) ==
    CHOOSE out \in
        {IF ~lexed.ok THEN lexed ELSE parse_document(lexed.v)
           : lexed \in {tokens(content)}} : TRUE

(***************************************************************************)
(* config/helpers.rs: parse_gather_specs                                    *)
(***************************************************************************)

Whitespace == {" ", "\t", "\n", "\r"}

RECURSIVE trim_start(_)
trim_start(s) ==
    IF Len(s) > 0 /\ SubSeq(s, 1, 1) \in Whitespace THEN trim_start(Tail(s)) ELSE s

RECURSIVE trim_end(_)
trim_end(s) ==
    IF Len(s) > 0 /\ SubSeq(s, Len(s), Len(s)) \in Whitespace
    THEN trim_end(SubSeq(s, 1, Len(s) - 1))
    ELSE s

\* str::trim()
trim(s) == trim_end(trim_start(s))

\* str::starts_with(prefix)
starts_with(s, prefix) == Len(s) >= Len(prefix) /\ SubSeq(s, 1, Len(prefix)) = prefix

\* str::find(ch): the index, counted from 0, of the first ch at or after the
\* character at i; None when there is none.
RECURSIVE find_from(_, _, _)
find_from(s, ch, i) ==
    IF i > Len(s) THEN None
    ELSE IF SubSeq(s, i, i) = ch THEN Some(i - 1)
    ELSE find_from(s, ch, i + 1)

\* str::lines(): the text cut at "\n", without a last empty line and without
\* the "\r" that ends a line.
strip_cr(line) ==
    IF Len(line) > 0 /\ SubSeq(line, Len(line), Len(line)) = "\r"
    THEN SubSeq(line, 1, Len(line) - 1)
    ELSE line

str_lines(content) ==
    LET pieces == split(content, "\n")
        kept   == IF pieces[Len(pieces)] = "" THEN SubSeq(pieces, 1, Len(pieces) - 1)
                  ELSE pieces
    IN  [i \in 1..Len(kept) |-> strip_cr(kept[i])]

\* str::split_whitespace()
RECURSIVE split_whitespace_from(_, _, _)
split_whitespace_from(s, cur, acc) ==
    IF Len(s) = 0 THEN (IF cur = "" THEN acc ELSE Append(acc, cur))
    ELSE IF SubSeq(s, 1, 1) \in Whitespace
         THEN split_whitespace_from(Tail(s), "", IF cur = "" THEN acc ELSE Append(acc, cur))
         ELSE split_whitespace_from(Tail(s), cur \o SubSeq(s, 1, 1), acc)

split_whitespace(s) == split_whitespace_from(s, "", <<>>)

\* The text between the quote that opens trimmed and the next quote of
\* the same kind.
quoted_by(trimmed, quote) ==
    IF starts_with(trimmed, quote) /\ is_some(find_from(trimmed, quote, 2))
    THEN Some(SubSeq(trimmed, 2, unwrap(find_from(trimmed, quote, 2))))
    ELSE None

extract_quoted_string(input) ==
    IF is_some(quoted_by(trim(input), "\"")) THEN quoted_by(trim(input), "\"")
    ELSE quoted_by(trim(input), "'")

\* The index of the first token `as`, or 0.
RECURSIVE as_position(_, _)
as_position(words, i) ==
    IF i > Len(words) THEN 0
    ELSE IF words[i] = "as" THEN i
    ELSE as_position(words, i + 1)

\* (explicit_alias, alias_opt) of the text that follows `gather`.
explicit_alias_of(rest) ==
    LET quote == IF Len(rest) > 0 THEN SubSeq(rest, 1, 1) ELSE "\""
        end_rel == IF quote \in {"\"", "'"} THEN find_from(rest, quote, 2) ELSE None
    IN  IF is_none(end_rel) THEN [explicit |-> FALSE, alias |-> None]
        ELSE LET after_quote == trim(SubSeq(rest, unwrap(end_rel) + 2, Len(rest)))
                 words == split_whitespace(after_quote)
                 at == as_position(words, 1)
             IN  IF at = 0 THEN [explicit |-> FALSE, alias |-> None]
                 ELSE [explicit |-> TRUE,
                       alias |-> IF at < Len(words) THEN Some(words[at + 1]) ELSE None]

GatherSpec(alias, raw_path, explicit_alias) ==
    [alias |-> alias, raw_path |-> raw_path, explicit_alias |-> explicit_alias]

\* The GatherSpec of a line, if the line is a gather statement.
gather_spec_of(line) ==
    LET trimmed == trim(line)
        rest == trim(SubSeq(trimmed, 7, Len(trimmed)))
        path == extract_quoted_string(rest)
        found == explicit_alias_of(rest)
    IN  IF trimmed = "" \/ starts_with(trimmed, "#") THEN None
        ELSE IF ~starts_with(trimmed, "gather") THEN None
        ELSE IF is_none(path) THEN None
        ELSE Some(GatherSpec(
                 IF is_some(found.alias) THEN unwrap(found.alias)
                 ELSE IF is_some(file_stem(unwrap(path))) THEN unwrap(file_stem(unwrap(path)))
                 ELSE "imported",
                 unwrap(path), found.explicit))

RECURSIVE gather_specs_of(_)
gather_specs_of(text_lines) ==
    IF Len(text_lines) = 0 THEN <<>>
    ELSE gather_spec_of(text_lines[1]) \o gather_specs_of(Tail(text_lines))

parse_gather_specs(content) == gather_specs_of(str_lines(content))

(***************************************************************************)
(* Inputs: the statements a main file is made of                            *)
(***************************************************************************)

\* app 1
StmtAppGlobal == "app 1"

\* debug = true
StmtDebug == "debug = true"

\* app: / name "A" / flag false / end
StmtApp == "app:\n  name \"A\"\n  flag false\nend"

\* home $env.HOME
StmtHomeDollar == "home $env.HOME"

\* home env.HOME
StmtHomeBare == "home env.HOME"

\* x: / y 1 / l [app x.y] / n: / z nosuch / end / p "$sys.os" / end
StmtXBlock ==
    "x:\n  y 1\n  l [app x.y]\n  n:\n    z nosuch\n  end\n  p \"$sys.os\"\nend"

Statements ==
    {StmtAppGlobal, StmtDebug, StmtApp, StmtHomeDollar, StmtHomeBare, StmtXBlock}

\* The statements of a file, one per line.
RECURSIVE lines(_)
lines(stmts) ==
    IF Len(stmts) = 0 THEN ""
    ELSE stmts[1] \o "\n" \o lines(Tail(stmts))

\* A file states each statement of the pool at most once.
distinct(stmts) == \A i, j \in 1..Len(stmts) : stmts[i] = stmts[j] => i = j

Contents ==
    {lines(stmts) :
        stmts \in {f \in UNION {[1..n -> Statements] : n \in 0..MaxStmts} :
                      distinct(f)}}

EnvNames == {"HOME"}

Environments == [EnvNames -> {None, Some("/root")}]

(***************************************************************************)
(* Inputs: the document an application injects as an import                 *)
(***************************************************************************)

\* A document built through the public ast types.  It has a field y and a
\* block c, and no field n.
\*   c: / y 3 / if y: k 4 / d: e 5 end / else: k 6 / endif / end
\*   y = 2
\*   v = if debug { k app / if !app: m runtime.t else: m [b, if b = 1 "one"] endif }
\*       else app
\*   w = x.w
\*   u = [y, app]
ImportDocument ==
    Document(
        << <<"c", VObject(<<Assign("y", VNumber(3)),
                            IfBlock(Exists("y"),
                                    <<Assign("k", VNumber(4)),
                                      Assign("d", VObject(<<Assign("e", VNumber(5))>>))>>,
                                    Some(<<Assign("k", VNumber(6))>>))>>)>> >>,
        <<>>,
        << <<"y", VNumber(2)>>,
           <<"v", VConditional(
                      Exists("debug"),
                      VObject(<<Assign("k", VReference(<<"app">>)),
                                IfBlock(NotExists("app"),
                                        <<Assign("m", VReference(<<"runtime", "t">>))>>,
                                        Some(<<Assign("m", VArray(<<
                                            VReference(<<"b">>),
                                            VConditional(Equals("b", VNumber(1)),
                                                         VString("one"), None)>>))>>))>>),
                      Some(VReference(<<"app">>)))>>,
           <<"w", VReference(<<"x", "w">>)>>,
           <<"u", VArray(<<VReference(<<"y">>), VReference(<<"app">>)>>)>> >>)

ImportAliases == {"x"}

ImportDocuments == {ImportDocument}

(***************************************************************************)
(* Inputs: the arguments of the calls                                       *)
(***************************************************************************)

GetValuePaths == {"", "app", "home", "app.flag", "x", "x.n.z"}

GetKeysPaths == {"", "app", "x"}

ReferencePaths ==
    {<<>>, <<"x">>, <<"x", "y">>, <<"x", "c", "y">>, <<"x", "n", "z">>,
     <<"app">>, <<"app", "flag">>, <<"home">>,
     <<"x", "c", "k">>, <<"x", "c", "d", "e">>, <<"x", "y", "z">>}

ConditionPaths == {"app", "x.y", "env.HOME"}

Conditions ==
    {Equals(p, VNumber(1)) : p \in ConditionPaths \ {"x.y"}}
    \cup {NotEquals(p, VNumber(1)) : p \in ConditionPaths \ {"x.y"}}
    \cup {Exists(p) : p \in ConditionPaths}
    \cup {NotExists(p) : p \in ConditionPaths}
    \cup {Equals("env.HOME", VString("")), NotEquals("env.HOME", VString(""))}

Values ==
    {VReference(<<"app">>), VReference(<<"x">>),
     VReference(<<"x", "v">>), VReference(<<"x", "w">>), VReference(<<"x", "u">>),
     VReference(<<"nosuch", "k">>), VReference(<<"env", "HOME">>),
     VReference(<<"env">>), VReference(<<"sys", "os", "v">>),
     VConditional(NotEquals("app", VNumber(1)),
                  VArray(<<VReference(<<"home">>), VRegex("a+")>>), None),
     VObject(<<Assign("k2", VReference(<<"b">>)),
               IfBlock(NotExists("debug"),
                       <<Assign("k1", VNull), Assign("k2", VNumber(7))>>, None),
               Assign("k3", VObject(<<IfBlock(Exists("x.y"), <<>>,
                                              Some(<<Assign("e", VBool(TRUE))>>))>>))>>)}

\* The values the parser stored for the top-level entries of a document.
field_values(doc) ==
    {doc.globals[i][2] : i \in 1..Len(doc.globals)}
    \cup {doc.items[i][2] : i \in 1..Len(doc.items)}

(***************************************************************************)
(* The files on disk.  d/inc.rune includes d/a.rune, and d/a.rune and      *)
(* d/b.rune gather each other; d/s/c.rune and d/e.rune gather each other   *)
(* across directories.                                                      *)
(***************************************************************************)

Files ==
    [p \in {"d/inc.rune", "d/a.rune", "d/b.rune", "d/two.rune", "d/nest.rune",
            "d/self.rune", "d/deep.rune", "d/s/c.rune", "d/e.rune", "d/miss.rune",
            "d/bad.rune", "d/bad2.rune"} |->
       CASE p = "d/inc.rune" -> "gather \"a.rune\"\nname \"m\"\nsrv:\n  port 1\nend\n"
         [] p = "d/a.rune" -> "gather \"b.rune\"\nname \"a\"\nonly_a 1\nsrv:\n  port 2\nend\n"
         [] p = "d/b.rune" -> "gather \"a.rune\" as z\nname \"b\"\n"
         [] p = "d/two.rune" -> "gather \"a.rune\" as x\ngather \"a.rune\" as y\n"
         [] p = "d/nest.rune" -> "gather \"b.rune\" as b\ngather \"a.rune\" as x\n"
         [] p = "d/self.rune" -> "gather \"self.rune\"\nk 1\n"
         [] p = "d/deep.rune" -> "gather \"s/c.rune\" as c\n"
         [] p = "d/s/c.rune" -> "gather \"../e.rune\" as e\n"
         [] p = "d/e.rune" -> "gather \"s/c.rune\" as c\n"
         [] p = "d/miss.rune" -> "gather \"nosuch.rune\"\nk 1\n"
         [] p = "d/bad.rune" -> "gather \"bad2.rune\" as q\n"
         [] p = "d/bad2.rune" -> "= 1\n"]

\* Longest path the system accepts (PATH_MAX), scaled to the files above.
PathMax == 24

\* Calls of load_import_recursive in progress that exhaust the stack.
LoadStackLimit == 9

\* Path::parent(): the path without its last component.
parent(path) ==
    LET slash == last_index(path, "/", Len(path))
    IN  IF slash = 0 THEN "" ELSE SubSeq(path, 1, slash - 1)

Directories ==
    {d \in UNION {{parent(p), parent(parent(p))} : p \in DOMAIN Files} : d # ""}

\* The file or directory a path names once `.` and `..` are followed, None
\* when a component is missing.
RECURSIVE walk_components(_, _)
walk_components(at, components) ==
    IF Len(components) = 0 THEN Some(at)
    ELSE CHOOSE out \in
             {IF c = "" \/ c = "." THEN walk_components(here, rest)
              ELSE IF here # "" /\ here \notin Directories THEN None
              ELSE IF c = ".." THEN walk_components(parent(here), rest)
              ELSE walk_components(IF here = "" THEN c ELSE here \o "/" \o c, rest)
                : here \in {at}, c \in {components[1]}, rest \in {Tail(components)}}
             : TRUE

named_by(path) == walk_components("", split(path, "/"))

\* Path::exists()
exists(path) ==
    /\ Len(path) <= PathMax
    /\ is_some(named_by(path))
    /\ unwrap(named_by(path)) \in DOMAIN Files

\* fs::read_to_string(path)
read_to_string(path) ==
    IF exists(path) THEN Ok(Files[unwrap(named_by(path))]) ELSE Err("FileError", 0)

(***************************************************************************)
(* config/mod.rs: from_file, from_file_with_base, load_import_recursive     *)
(***************************************************************************)

\* Path::is_relative()
is_relative(path) == ~starts_with(path, "/")

\* Path::join(path)
path_join(base, path) ==
    IF ~is_relative(path) \/ base = "" THEN path ELSE base \o "/" \o path

\* dirs::home_dir(): HOME when it is set.
home_dir == env_var("HOME")

resolve_gather_path(raw_path, base_dir) ==
    IF starts_with(raw_path, "~/")
    THEN IF is_none(home_dir) THEN Err("FileError", 300)
         ELSE Ok(path_join(base_dir,
                           path_join(unwrap(home_dir), SubSeq(raw_path, 3, Len(raw_path)))))
    ELSE Ok(path_join(base_dir, raw_path))

\* Parser::new(&content)?.parse_document()?
parsed_document(content) ==
    CHOOSE out \in
        {IF parsed.ok THEN Ok(parsed.v.doc) ELSE parsed
           : parsed \in {from_str(content)}} : TRUE

\* What reading and parsing each file on disk gives: its document (parsing
\* reads the environment) and its gather specs.  Neither the files nor the
\* environment change while from_file runs.
files_parsed ==
    [p \in DOMAIN Files |->
        [content |-> Files[p],
         doc |-> parsed_document(Files[p]),
         gather_specs |-> parse_gather_specs(Files[p])]]

\* The loader at rest.
NotLoading ==
    [pc |-> "idle", path |-> "", content |-> "", base_dir |-> "", docs |-> <<>>,
     visited |-> {}, gather_specs |-> <<>>, calls |-> <<>>, reads |-> <<>>,
     result |-> Ok(main_doc_key), on_disk |-> <<>>]

\* The loader returning an error.
failed_with(ld, error) == [ld EXCEPT !.pc = "failed", !.calls = <<>>, !.result = error]

\* from_file_with_base up to the loop over the gather specs.
start_loading(path, base_dir) ==
    LET started == [NotLoading EXCEPT !.path = path, !.base_dir = base_dir]
        file == files_parsed[unwrap(named_by(path))]
    IN  IF ~read_to_string(path).ok THEN failed_with(started, Err("FileError", 301))
        ELSE IF ~file.doc.ok THEN failed_with(started, file.doc)
        ELSE [started EXCEPT !.pc = "loading", !.content = file.content,
                             !.docs = (main_doc_key :> file.doc.v),
                             !.gather_specs = file.gather_specs,
                             !.on_disk = files_parsed]

\* A call of load_import_recursive(documents, alias, import_path, visited)
\* about to run; nested are the gather specs of the file still to be loaded.
Call(alias, import_path) ==
    [alias |-> alias, import_path |-> import_path, entered |-> FALSE, nested |-> <<>>]

\* Include semantics: the globals and items of the gathered file are put
\* before those of the main document.
merged(main_doc, import_doc) ==
    [main_doc EXCEPT !.globals = import_doc.globals \o main_doc.globals,
                     !.items = import_doc.items \o main_doc.items]

\* The rest of the body of the loop of from_file_with_base, after
\* load_import_recursive has returned for the first gather spec.
after_load(ld) ==
    LET spec == ld.gather_specs[1]
        rest == [ld EXCEPT !.gather_specs = Tail(@)]
    IN  IF ~spec.explicit_alias /\ spec.alias \in DOMAIN ld.docs
             /\ main_doc_key \in DOMAIN ld.docs
        THEN [rest EXCEPT !.docs[main_doc_key] =
                              merged(ld.docs[main_doc_key], ld.docs[spec.alias])]
        ELSE rest

\* The innermost call returns Ok(()).
returned(ld) ==
    LET popped == [ld EXCEPT !.calls = SubSeq(@, 1, Len(@) - 1)]
    IN  IF Len(popped.calls) = 0 THEN after_load(popped) ELSE popped

\* The next gather spec of the main file: its file is skipped when missing
\* and load_import_recursive is called otherwise.
next_gather(ld) ==
    LET spec == ld.gather_specs[1]
        import_path == resolve_gather_path(spec.raw_path, ld.base_dir)
    IN  IF ~import_path.ok THEN failed_with(ld, import_path)
        ELSE IF ~exists(import_path.v) THEN [ld EXCEPT !.gather_specs = Tail(@)]
        ELSE [ld EXCEPT !.calls = <<Call(spec.alias, import_path.v)>>]

\* load_import_recursive guarded by nothing.
never_visited(visited, key) == FALSE

\* Whether load_import_recursive returns at once.
already_visited(visited, key) == key \in visited

\* load_import_recursive from its entry to its loop over the nested gathers.
enter_call(ld) ==
    LET n == Len(ld.calls)
        call == ld.calls[n]
        file == ld.on_disk[unwrap(named_by(call.import_path))]
        seen == [ld EXCEPT !.visited = @ \cup {call.import_path},
                           !.reads = Append(@, call.import_path)]
    IN  IF already_visited(ld.visited, call.import_path) THEN returned(ld)
        ELSE IF ~read_to_string(call.import_path).ok
             THEN failed_with(seen, Err("FileError", 302))
        ELSE IF ~file.doc.ok THEN failed_with(seen, file.doc)
        ELSE [seen EXCEPT !.docs = (call.alias :> file.doc.v) @@ @,
                          !.calls[n].entered = TRUE,
                          !.calls[n].nested = file.gather_specs]

\* One turn of the loop over the nested gathers, or the return after it.
nested_gather(ld) ==
    LET n == Len(ld.calls)
        call == ld.calls[n]
        spec == call.nested[1]
        nested_path == resolve_gather_path(spec.raw_path, parent(call.import_path))
        turned == [ld EXCEPT !.calls[n].nested = Tail(@)]
    IN  IF Len(call.nested) = 0 THEN returned(ld)
        ELSE IF ~nested_path.ok THEN failed_with(ld, nested_path)
        ELSE IF ~exists(nested_path.v) THEN turned
        ELSE IF n >= LoadStackLimit THEN [turned EXCEPT !.pc = "aborted"]
        ELSE [turned EXCEPT !.calls = Append(@, Call(spec.alias, nested_path.v))]

(***************************************************************************)
(* The state machine                                                        *)
(***************************************************************************)

loaded == main_doc_key \in DOMAIN documents

\* The main document and the import table every call runs against.
MainDoc == documents[main_doc_key]

Imports == temp_imports(documents)

\* The values held by the top-level entries of the loaded main document.
stored_values == IF loaded THEN field_values(MainDoc) ELSE {}

\* The process has started and no configuration is loaded yet.
Init ==
    /\ env \in Environments
    /\ documents = <<>>
    /\ raw_content = ""
    /\ the_lexer = Lexer("")
    /\ loader = NotLoading
    /\ res = [op |-> "start"]

\* RuneConfig::from_str(content)
FromStr(content) ==
    /\ res.op = "start"
    /\ \E parsed \in {from_str(content)} :
          /\ raw_content' = IF parsed.ok THEN content ELSE ""
          /\ documents' = IF parsed.ok THEN (main_doc_key :> parsed.v.doc) ELSE <<>>
          /\ res' = Returned("from_str", content,
                     IF parsed.ok THEN Ok(main_doc_key) ELSE parsed)
    /\ UNCHANGED <<env, the_lexer, loader>>

\* RuneConfig::inject_import(alias, document)
InjectImport(alias, document) ==
    /\ loaded
    /\ documents' = [a \in DOMAIN documents \cup {alias} |->
                        IF a = alias THEN document ELSE documents[a]]
    /\ res' = [op |-> "inject_import", arg |-> alias]
    /\ UNCHANGED <<raw_content, env, the_lexer, loader>>

\* RuneConfig::get_value(path)
GetValue(path) ==
    /\ loaded
    /\ res' = Returned("get_value", path, get_value(documents, path))
    /\ UNCHANGED <<documents, raw_content, env, the_lexer, loader>>

\* RuneConfig::get_keys(path)
GetKeys(path) ==
    /\ loaded
    /\ res' = Returned("get_keys", path, get_keys(documents, path))
    /\ UNCHANGED <<documents, raw_content, env, the_lexer, loader>>

\* Parser::resolve_reference(path, main_doc) with the imports injected
ResolveReference(path) ==
    /\ loaded
    /\ res' = Returned("resolve_reference", path,
               resolve_reference(Imports, path, MainDoc))
    /\ UNCHANGED <<documents, raw_content, env, the_lexer, loader>>

\* helpers::condition_is_met(condition, parser, main_doc)
ConditionIsMet(condition) ==
    /\ loaded
    /\ res' = Returned("condition_is_met", condition,
               condition_is_met(condition, Imports, MainDoc))
    /\ UNCHANGED <<documents, raw_content, env, the_lexer, loader>>

\* helpers::resolve_value_recursively(value, parser, main_doc)
ResolveValue(value) ==
    /\ loaded
    /\ res' = Returned("resolve_value_recursively", value,
               resolve_value_recursively(value, Imports, MainDoc, 0))
    /\ UNCHANGED <<documents, raw_content, env, the_lexer, loader>>

\* helpers::resolve_value_recursively applied to the tree the last call
\* returned; from is the value that call was given.
ResolveAgain ==
    /\ loaded
    /\ res.op = "resolve_value_recursively"
    /\ res.out.ok
    /\ res' = [op |-> "resolve_again", from |-> res.arg, arg |-> res.out.v,
               out |-> resolve_value_recursively(res.out.v, Imports, MainDoc, 0)]
    /\ UNCHANGED <<documents, raw_content, env, the_lexer, loader>>

Next ==
    \/ \E content \in Contents : FromStr(content)
    \/ \E alias \in ImportAliases, document \in ImportDocuments :
           InjectImport(alias, document)
    \/ \E path \in GetValuePaths : GetValue(path)
    \/ \E path \in GetKeysPaths : GetKeys(path)
    \/ \E path \in ReferencePaths : ResolveReference(path)
    \/ \E condition \in Conditions : ConditionIsMet(condition)
    \/ \E value \in Values \cup stored_values : ResolveValue(value)
    \/ ResolveAgain

Spec == Init /\ [][Next]_vars

(***************************************************************************)
(* Files that use the conditional forms and the namespace names, loaded and *)
(* queried one at a time.                                                   *)
(***************************************************************************)

\* config/tests.rs, test_config_if_blocks_flatten_to_assignments
TextIfBlocks ==
    "\napp:\n  name \"A\"\n  if debug:\n    flag true\n  else:\n    flag false\n  endif\nend\n"

\* v if debug 1 else 2
TextInlineIfElse == "v if debug 1 else 2\n"

\* v = if app = 1 "one"
TextInlineIfEquals == "v = if app = 1 \"one\"\n"

\* a: / if env.DEBUG: / k 1 / endif / end
TextEnvCondition == "a:\n  if env.DEBUG:\n    k 1\n  endif\nend\n"

\* a: / if a.b = 1: / k 1 / endif / end
TextDottedCondition == "a:\n  if a.b = 1:\n    k 1\n  endif\nend\n"

\* a: / if x: / k 1 / endif / end
TextBlockIf == "a:\n  if x:\n    k 1\n  endif\nend\n"

\* a: / b: / if x: / k 1 / endif / end / end
TextNestedBlockIf == "a:\n  b:\n    if x:\n      k 1\n    endif\n  end\nend\n"

\* a: / if x: / b: / if y: / k 1 / endif / end / endif / end
TextBranchBlockIf ==
    "a:\n  if x:\n    b:\n      if y:\n        k 1\n      endif\n    end\n  endif\nend\n"

\* env: / HOME "field" / end / sys 1 / runtime 2
TextNamespaceFields == "env:\n  HOME \"field\"\nend\nsys 1\nruntime 2\n"

\* a: / b 1 / end
TextPlain == "a:\n  b 1\nend\n"

SourceTexts ==
    {TextIfBlocks, TextInlineIfElse, TextInlineIfEquals, TextEnvCondition,
     TextDottedCondition, TextBlockIf, TextNestedBlockIf, TextBranchBlockIf,
     TextNamespaceFields, TextPlain}

SourcePaths == {"app.flag", "v", "a", "env"}

NamespacePaths ==
    {"env", "sys", "runtime", "env.HOME", "sys.os", "runtime.t", "env.HOME.x", "a.b"}

NamespaceConditions ==
    {Exists(p) : p \in NamespacePaths}
    \cup {Equals(p, VString("field")) : p \in {"env.HOME", "env.HOME.x"}}
    \cup {NotEquals(p, VNumber(1)) : p \in {"sys", "sys.os"}}
    \cup {NotExists("runtime")}

NamespaceValues == {VReference(split(p, ".")) : p \in NamespacePaths}

SourceNext ==
    \/ \E content \in SourceTexts : FromStr(content)
    \/ \E path \in SourcePaths : GetValue(path)
    \/ \E condition \in NamespaceConditions : ConditionIsMet(condition)
    \/ \E value \in NamespaceValues \cup stored_values : ResolveValue(value)

SourceSpec == Init /\ [][SourceNext]_vars

(***************************************************************************)
(* The lexer driven by hand: Lexer::new, next_token, next_token_in_array,   *)
(* and the token stream a Parser draws from a text.                         *)
(***************************************************************************)

\* A line `first # c` followed by the line `second`, and the same two lines
\* without the comment.
commented(first, second) == first \o " # c\n" \o second

uncommented(first, second) == first \o " \n" \o second

LineTexts == {"a 1", "b 2", "k \"s\"", "l [x y]", "end"}

LexInputs ==
    {"\"abc\"", "k \"abc\" x", "'a\\'b' 1", "k 'it\\n' \"q\"", "\"abc",
     "k \"abc\\\"", "'abc\\", "\"a'b\"\n",
     "r\"abc", "r\"a\\db\" x", "k r\"a\\\"b\"", "r\"ab\\", "r\"^a$\"",
     "true false end endif gather as", "if else elseif null None",
     "rune iffy end-1 x_1 Ends r2", "a 1 # c\nb 2", "[1, 2\n3] @v $x.y = 4:"}

\* Lexer::new(input)
LexerNew(input) ==
    /\ the_lexer' = Lexer(input)
    /\ res' = [op |-> "new", arg |-> input]
    /\ UNCHANGED <<documents, raw_content, env, loader>>

\* Lexer::next_token; from is the lexer the call was made on.
NextToken ==
    /\ res.op # "start"
    /\ \E r \in {next_token(the_lexer)} :
          /\ the_lexer' = r.lexer
          /\ res' = [op |-> "next_token", from |-> the_lexer, out |-> r.out]
    /\ UNCHANGED <<documents, raw_content, env, loader>>

\* Lexer::next_token_in_array
NextTokenInArray ==
    /\ res.op # "start"
    /\ \E r \in {next_token_in_array(the_lexer)} :
          /\ the_lexer' = r.lexer
          /\ res' = [op |-> "next_token_in_array", from |-> the_lexer, out |-> r.out]
    /\ UNCHANGED <<documents, raw_content, env, loader>>

\* Parser::new on two lines, the first ending in a comment, and bump up to
\* Eof: the tokens the parser is given.
TokenStream(first, second) ==
    /\ res.op \in {"start", "tokens"}
    /\ res' = Returned("tokens", <<first, second>>,
               tokens(commented(first, second)))
    /\ UNCHANGED <<documents, raw_content, env, the_lexer, loader>>

LexNext ==
    \/ \E input \in LexInputs : LexerNew(input)
    \/ NextToken
    \/ NextTokenInArray
    \/ \E first \in LineTexts, second \in LineTexts : TokenStream(first, second)

LexSpec == Init /\ [][LexNext]_vars

(***************************************************************************)
(* Conversions of a Value to the sized integers: value.try_into(), as       *)
(* config.get::<T>(path) applies it to the value found.                     *)
(***************************************************************************)

IntTargets == {"u8", "u16", "u32", "u64", "i32", "i64"}

\* 0, 1, 7, 255, 256, 65535, 65536, 2^31 - 1, 2^31, 2^32 - 1, 2^32,
\* 2^53, 2^63 - 1024, 2^63, 2^64 - 2048, 2^64, 2^64 + 4096
ConvMagnitudes ==
    { {}, {0}, 0..2, 0..7, {8}, 0..15, {16}, 0..30, {31}, 0..31, {32},
      {53}, 10..62, {63}, 11..63, {64}, {64, 12} }

\* The same with a minus sign, and -(2^31 + 1) and -(2^63 + 2048).
ConvNumbers ==
    {n \in {Binary(neg, mag) : neg \in BOOLEAN,
                               mag \in ConvMagnitudes \cup {{31, 0}, {63, 11}}} :
        is_f64(n)}

ConvValues ==
    {VNumber(n) : n \in ConvNumbers} \cup {VString("255"), VBool(TRUE), VNull}

\* let result: Result<T, RuneError> = value.try_into();
TryFrom(value, T) ==
    /\ res' = [op |-> "try_from", arg |-> value, target |-> T,
               out |-> try_from_int(value, T)]
    /\ UNCHANGED <<documents, raw_content, env, the_lexer, loader>>

ConvNext == \E value \in ConvValues, T \in IntTargets : TryFrom(value, T)

ConvSpec == Init /\ [][ConvNext]_vars

(***************************************************************************)
(* The typed access layer: files whose keys are written with hyphens and    *)
(* underscores, queried through get_value_flexible, get, get_optional, has. *)
(***************************************************************************)

TextBothForms == "my-key true\nmy_key false\n"

TextSnakeOnly == "my_key false\n"

TextMixedAbsent == "a_b_c 1\na-b-c 2\n"

TextBlockForms == "srv-a:\n  max_size 1\n  max-size 2\nend\n"

TextBlockSnake == "srv_a:\n  max-size true\nend\n"

TextEnvReference == "home env.HOME\nflag true\n"

AccessTexts ==
    {TextBothForms, TextSnakeOnly, TextMixedAbsent, TextBlockForms, TextBlockSnake,
     TextEnvReference}

AccessPaths ==
    {"my-key", "my_key", "a-b_c", "a_b-c", "srv_a.max-size", "srv-a.max_size",
     "srv_a.max_size", "flag", "home", "nosuch", "", " "}

AccessTargets == {"bool", "String"}

GetValueFlexible(path) ==
    /\ loaded
    /\ res' = Returned("get_value_flexible", path, get_value_flexible(documents, path))
    /\ UNCHANGED <<documents, raw_content, env, the_lexer, loader>>

Get(path, T) ==
    /\ loaded
    /\ res' = [op |-> "get", arg |-> path, target |-> T,
               out |-> get(documents, path, T)]
    /\ UNCHANGED <<documents, raw_content, env, the_lexer, loader>>

GetOptional(path, T) ==
    /\ loaded
    /\ res' = [op |-> "get_optional", arg |-> path, target |-> T,
               out |-> get_optional(documents, path, T)]
    /\ UNCHANGED <<documents, raw_content, env, the_lexer, loader>>

Has(path) ==
    /\ loaded
    /\ res' = Returned("has", path, has(documents, path))
    /\ UNCHANGED <<documents, raw_content, env, the_lexer, loader>>

AccessNext ==
    \/ \E content \in AccessTexts : FromStr(content)
    \/ \E path \in AccessPaths : GetValueFlexible(path)
    \/ \E path \in AccessPaths, T \in AccessTargets : Get(path, T)
    \/ \E path \in AccessPaths, T \in AccessTargets : GetOptional(path, T)
    \/ \E path \in AccessPaths : Has(path)

AccessSpec == Init /\ [][AccessNext]_vars

(***************************************************************************)
(* Loading from files: RuneConfig::from_file, one step of the loader at a   *)
(* time, and the queries made of the RuneConfig it returns.                 *)
(***************************************************************************)

MainPaths ==
    {"d/inc.rune", "d/a.rune", "d/two.rune", "d/nest.rune", "d/self.rune",
     "d/deep.rune", "d/miss.rune", "d/bad.rune", "d/none.rune"}

LoadPaths == {"name", "only_a", "srv.port", "k", "a.name", "x.name", "y.name"}

LoadReferences == {<<"name">>, <<"srv">>, <<"only_a">>, <<"x", "name">>}

\* RuneConfig::from_file(path), up to the loop over the gather specs.
FromFile(path) ==
    /\ res.op = "start"
    /\ loader' = start_loading(path, parent(path))
    /\ res' = [op |-> "from_file", arg |-> path]
    /\ UNCHANGED <<documents, raw_content, env, the_lexer>>

\* for spec in gather_specs.iter() { ... }
NextGather ==
    /\ loader.pc = "loading"
    /\ Len(loader.calls) = 0
    /\ Len(loader.gather_specs) > 0
    /\ loader' = next_gather(loader)
    /\ UNCHANGED <<documents, raw_content, env, the_lexer, res>>

\* load_import_recursive is entered.
EnterCall ==
    /\ loader.pc = "loading"
    /\ Len(loader.calls) > 0
    /\ ~loader.calls[Len(loader.calls)].entered
    /\ loader' = enter_call(loader)
    /\ UNCHANGED <<documents, raw_content, env, the_lexer, res>>

\* for spec in nested_specs.iter() { ... } and Ok(()) after it
NestedGather ==
    /\ loader.pc = "loading"
    /\ Len(loader.calls) > 0
    /\ loader.calls[Len(loader.calls)].entered
    /\ loader' = nested_gather(loader)
    /\ UNCHANGED <<documents, raw_content, env, the_lexer, res>>

\* from_file_with_base returns: Ok(Self { documents, .. }) or the error.
FromFileReturns ==
    /\ \/ loader.pc = "failed"
       \/ loader.pc = "loading" /\ Len(loader.calls) = 0 /\ Len(loader.gather_specs) = 0
    /\ loader' = [loader EXCEPT !.pc = "done"]
    /\ documents' = IF loader.result.ok THEN loader.docs ELSE documents
    /\ raw_content' = IF loader.result.ok THEN loader.content ELSE raw_content
    /\ res' = Returned("from_file", loader.path, loader.result)
    /\ UNCHANGED <<env, the_lexer>>

LoadStep == NextGather \/ EnterCall \/ NestedGather \/ FromFileReturns

LoadNext ==
    \/ \E path \in MainPaths : FromFile(path)
    \/ NextGather
    \/ EnterCall
    \/ NestedGather
    \/ FromFileReturns
    \/ \E path \in LoadPaths : GetValue(path)
    \/ \E path \in LoadReferences : ResolveReference(path)

\* The loader is a sequential program: it takes its next step.
LoadSpec == Init /\ [][LoadNext]_vars /\ WF_vars(LoadStep)

(***************************************************************************)
(* Properties                                                               *)
(***************************************************************************)

\* The items of the branch an if-block selects: the then-items when its
\* condition is met, otherwise the else-items, or none without an else.
selected_items(block) ==
    IF condition_is_met(block.condition, Imports, MainDoc) THEN block.then_items
    ELSE IF is_some(block.else_items) THEN unwrap(block.else_items)
    ELSE <<>>

\* What flattening has to yield for a list of items: each assignment with
\* its value resolved, each if-block replaced in place by what its selected
\* branch yields.
RECURSIVE flattened(_)
flattened(items) ==
    IF Len(items) = 0 THEN <<>>
    ELSE (IF items[1].t = "Assign"
          THEN <<Assign(items[1].k,
                        resolve_value_recursively(items[1].v, Imports, MainDoc, 0).v)>>
          ELSE flattened(selected_items(items[1])))
         \o flattened(Tail(items))

\* C1 as stated: a successful resolve_value_recursively on an Object replaces
\* every if-block by the resolved items of exactly one branch (then-items
\* when the condition is met, else-items otherwise, nothing without an
\* else); and the file `app: name "A" / if debug: flag true / else: flag
\* false / endif / end`, where debug is defined nowhere, loads and
\* get("app.flag") is false.
C1_IfBlockOneBranch ==
    /\ (res.op = "resolve_value_recursively" /\ res.arg.t = "Object" /\ res.out.ok)
           => res.out.v = VObject(flattened(res.arg.items))
    /\ (res.op = "from_str" /\ res.arg = TextIfBlocks) => res.out.ok
    /\ (res.op = "get_value" /\ res.arg = "app.flag" /\ raw_content = TextIfBlocks)
           => (res.out.ok /\ try_from_bool(res.out.v) = Ok(FALSE))

\* No Conditional and no IfBlock at any depth of a value.
RECURSIVE fully_flat(_)
fully_flat(v) ==
    CASE v.t = "Conditional" -> FALSE
      [] v.t = "Array" -> \A i \in 1..Len(v.arr) : fully_flat(v.arr[i])
      [] v.t = "Object" ->
           \A i \in 1..Len(v.items) :
               v.items[i].t = "Assign" /\ fully_flat(v.items[i].v)
      [] OTHER -> TRUE

\* C2: the tree a successful resolve_value_recursively returns holds no
\* IfBlock and no Conditional at any depth, whatever the input was built
\* from and whatever its references reach.
C2_ResolvedTreeIsFlat ==
    (res.op = "resolve_value_recursively" /\ res.out.ok) => fully_flat(res.out.v)

C2_Witness ==
    /\ res.op = "resolve_value_recursively"
    /\ res.arg = VReference(<<"x", "v">>)
    /\ is_some(resolve_reference(Imports, res.arg.path, MainDoc))
    /\ ~fully_flat(unwrap(resolve_reference(Imports, res.arg.path, MainDoc)))
    /\ res.out.ok
    /\ res.out.v.t = "Object"

\* The keys of a list of items in source order, an if-block standing for the
\* keys of its selected branch.
RECURSIVE selected_keys(_)
selected_keys(items) ==
    IF Len(items) = 0 THEN <<>>
    ELSE (IF items[1].t = "Assign" THEN <<items[1].k>>
          ELSE selected_keys(selected_items(items[1])))
         \o selected_keys(Tail(items))

\* The entry of the unresolved root object that a one-segment path names.
root_entry(path) == find_assign(root_items(MainDoc), path)

\* C3: the keys of a resolved object are the keys of the source object in
\* source order, each if-block replaced in place by the keys of its chosen
\* branch; and get_keys returns the keys of the object at its path in that
\* order.
C3_KeyOrderPreserved ==
    /\ (res.op = "resolve_value_recursively" /\ res.arg.t = "Object" /\ res.out.ok)
           => /\ res.out.v.t = "Object"
              /\ [i \in 1..Len(res.out.v.items) |-> res.out.v.items[i].k]
                     = selected_keys(res.arg.items)
    /\ (res.op = "get_keys" /\ res.out.ok /\ res.arg = "")
           => res.out.v = selected_keys(root_items(MainDoc))
    /\ (res.op = "get_keys" /\ res.out.ok /\ res.arg # ""
            /\ is_some(root_entry(res.arg)) /\ unwrap(root_entry(res.arg)).t = "Object")
           => res.out.v = selected_keys(unwrap(root_entry(res.arg)).items)

C3_Witness ==
    /\ res.op = "resolve_value_recursively"
    /\ res.arg.t = "Object"
    /\ \E i \in 1..Len(res.arg.items) : res.arg.items[i].t = "IfBlock"
    /\ res.out.ok
    /\ [i \in 1..Len(res.out.v.items) |-> res.out.v.items[i].k]
           = <<"k2", "k1", "k2", "k3">>

\* C4: resolving the tree that a successful resolve_value_recursively
\* returned, against the same documents and environment, returns that very
\* tree.
C4_ResolveIdempotent ==
    res.op = "resolve_again" => res.out = Ok(res.arg)

C4_Witness ==
    /\ res.op = "resolve_again"
    /\ res.from = VReference(<<"x">>)
    /\ res.arg.t = "Object"
    /\ res.from # res.arg
    /\ res.out.ok

\* C5: when the first segment of a path is an import alias, resolve_reference
\* returns what the rest of the path resolves to inside the imported document
\* alone, whether or not the main document has a field of that name, and
\* None for the alias on its own.
C5_ImportAliasFirst ==
    (res.op = "resolve_reference" /\ Len(res.arg) >= 1 /\ res.arg[1] \in DOMAIN Imports)
        => res.out = IF Len(res.arg) = 1 THEN None
                     ELSE resolve_reference(<<>>, Tail(res.arg), Imports[res.arg[1]])

C5_Witness ==
    /\ res.op = "resolve_reference"
    /\ res.arg = <<"x", "y">>
    /\ "x" \in DOMAIN Imports
    /\ is_some(find_pair(MainDoc.items, "x"))
    /\ res.out = Some(VNumber(2))

\* The positions of the entries called name in a list of (name, value) pairs.
positions(pairs, name) == {i \in 1..Len(pairs) : pairs[i][1] = name}

earliest(S) == CHOOSE i \in S : \A j \in S : i <= j

\* C6: for a path of one segment in its context document (the import when
\* the path starts with an alias, else the main document), resolve_reference
\* returns the earliest item of that name if there is one, else the earliest
\* global of that name, else None.
C6_ItemsBeforeGlobals ==
    (res.op = "resolve_reference" /\ Len(res.arg) >= 1)
        => LET is_alias == res.arg[1] \in DOMAIN Imports
               context == IF is_alias THEN Imports[res.arg[1]] ELSE MainDoc
               remaining == IF is_alias THEN Tail(res.arg) ELSE res.arg
           IN Len(remaining) = 1
                  => res.out =
                         IF positions(context.items, remaining[1]) # {}
                         THEN Some(context.items[
                                  earliest(positions(context.items, remaining[1]))][2])
                         ELSE IF positions(context.globals, remaining[1]) # {}
                         THEN Some(context.globals[
                                  earliest(positions(context.globals, remaining[1]))][2])
                         ELSE None

C6_Witness ==
    /\ res.op = "resolve_reference"
    /\ res.arg = <<"app">>
    /\ positions(MainDoc.items, "app") # {}
    /\ positions(MainDoc.globals, "app") # {}
    /\ res.out = Some(MainDoc.items[earliest(positions(MainDoc.items, "app"))][2])

home_unset == env_var("HOME") = None

\* The files that state `home $env.HOME` and not `home env.HOME`.
HomeDollarFiles ==
    {lines(stmts) :
        stmts \in {f \in UNION {[1..n -> Statements] : n \in 0..MaxStmts} :
                      /\ distinct(f)
                      /\ \E i \in 1..Len(f) : f[i] = StmtHomeDollar
                      /\ \A i \in 1..Len(f) : f[i] # StmtHomeBare}}

literal_field(path) ==
    /\ is_some(root_entry(path))
    /\ unwrap(root_entry(path)).t \in {"String", "Number", "Bool"}

\* C8 as stated: once get_value(p) has failed with RuntimeError 308, a
\* get_value(q) for another path q that names a literal field leaves the
\* documents as they were and succeeds.
C8_ErrorIsLocal ==
    [][(/\ res.op = "get_value"
        /\ res.out = Err("RuntimeError", 308)
        /\ res'.op = "get_value"
        /\ res'.arg # res.arg
        /\ literal_field(res'.arg))
           => (documents' = documents /\ res'.out.ok)]_vars

\* What the condition's path resolves to.
actual_value(condition) == resolve_path_value(Imports, MainDoc, condition.path)

\* C9: condition_is_met returns a boolean for every condition: Equals is true
\* iff the path resolves to the expected value, NotEquals iff it does not
\* resolve or resolves to another value, Exists iff it resolves, NotExists
\* iff it does not; so NotEquals is the negation of Equals and NotExists the
\* negation of Exists.
C9_ConditionSemantics ==
    res.op = "condition_is_met"
        => LET c == res.arg
               actual == actual_value(c)
           IN /\ res.out \in BOOLEAN
              /\ c.t = "Equals"
                     => (res.out <=> (is_some(actual) /\ unwrap(actual) = c.expected))
              /\ c.t = "NotEquals"
                     => /\ res.out <=> (is_none(actual) \/ unwrap(actual) # c.expected)
                        /\ res.out = ~condition_is_met(Equals(c.path, c.expected),
                                                       Imports, MainDoc)
              /\ c.t = "Exists" => (res.out <=> is_some(actual))
              /\ c.t = "NotExists"
                     => /\ res.out <=> is_none(actual)
                        /\ res.out = ~condition_is_met(Exists(c.path), Imports, MainDoc)

C9_Witness ==
    /\ res.op = "condition_is_met"
    /\ res.arg.t = "NotEquals"
    /\ is_none(actual_value(res.arg))
    /\ res.out = TRUE

\* A Reference outside the env, sys and runtime namespaces that
\* resolve_reference cannot resolve.
unresolvable(v) ==
    /\ v.t = "Reference"
    /\ Len(v.path) >= 1
    /\ v.path[1] \notin dollar_namespaces
    /\ is_none(resolve_reference(Imports, v.path, MainDoc))

\* The value stored in the main document at a dotted path.
stored_at(path) == lookup_path(VObject(root_items(MainDoc)), split(path, "."))

\* C10 as stated: resolve_value_recursively returns an unresolvable
\* Reference as it is, and get_value of a field that holds one succeeds and
\* returns that Reference.
C10_UnresolvedReferenceKept ==
    /\ (res.op = "resolve_value_recursively" /\ unresolvable(res.arg))
           => res.out = Ok(res.arg)
    /\ (res.op = "get_value" /\ is_some(stored_at(res.arg))
            /\ unresolvable(unwrap(stored_at(res.arg))))
           => res.out = Ok(unwrap(stored_at(res.arg)))

\* The keys assigned in the branches of the if-blocks of a list of items.
RECURSIVE branch_keys(_)
branch_keys(items) ==
    IF Len(items) = 0 THEN {}
    ELSE (IF items[1].t = "Assign" THEN {}
          ELSE LET then_items == items[1].then_items
                   else_items == IF is_some(items[1].else_items)
                                 THEN unwrap(items[1].else_items) ELSE <<>>
               IN {then_items[i].k : i \in {j \in 1..Len(then_items) :
                                               then_items[j].t = "Assign"}}
                  \cup {else_items[i].k : i \in {j \in 1..Len(else_items) :
                                                  else_items[j].t = "Assign"}}
                  \cup branch_keys(then_items) \cup branch_keys(else_items))
         \cup branch_keys(Tail(items))

\* The positions of the literal assignments to key among the items.
literal_positions(items, key) ==
    {i \in 1..Len(items) : items[i].t = "Assign" /\ items[i].k = key}

\* Some segment of the walk from v is a key that v's object assigns only
\* inside an if-block branch.
RECURSIVE walks_into_branch(_, _)
walks_into_branch(v, segs) ==
    /\ Len(segs) > 0
    /\ v.t = "Object"
    /\ IF literal_positions(v.items, segs[1]) = {}
       THEN segs[1] \in branch_keys(v.items)
       ELSE walks_into_branch(
                v.items[earliest(literal_positions(v.items, segs[1]))].v, Tail(segs))

\* The walk from v along segs through literal assignments only.
RECURSIVE literal_walk(_, _)
literal_walk(v, segs) ==
    IF Len(segs) = 0 THEN Some(v)
    ELSE IF v.t # "Object" THEN None
    ELSE IF literal_positions(v.items, segs[1]) = {} THEN None
    ELSE literal_walk(v.items[earliest(literal_positions(v.items, segs[1]))].v,
                      Tail(segs))

\* The document a path is walked in, the path inside it, and the value of
\* its first segment there.
walk_context(path) == IF path[1] \in DOMAIN Imports THEN Imports[path[1]] ELSE MainDoc

walk_path(path) == IF path[1] \in DOMAIN Imports THEN Tail(path) ELSE path

walk_first(path) == first_segment_value(walk_context(path), walk_path(path)[1])

\* C11: resolve_reference walks the objects through their literal Assign
\* entries only: a path with a key that the object being walked assigns only
\* inside an if-block branch resolves to None whatever the condition, and so
\* does a path through a value that is no object.
C11_ReferenceSkipsIfBlocks ==
    (res.op = "resolve_reference" /\ Len(res.arg) >= 1
        /\ Len(walk_path(res.arg)) >= 1 /\ is_some(walk_first(res.arg)))
        => /\ res.out = literal_walk(unwrap(walk_first(res.arg)),
                                     Tail(walk_path(res.arg)))
           /\ walks_into_branch(unwrap(walk_first(res.arg)), Tail(walk_path(res.arg)))
                  => res.out = None

C11_Witness ==
    /\ res.op = "resolve_reference"
    /\ res.arg = <<"x", "c", "k">>
    /\ "x" \in DOMAIN Imports
    /\ is_some(walk_first(res.arg))
    /\ walks_into_branch(unwrap(walk_first(res.arg)), <<"k">>)
    /\ res.out = None

\* The first segment of a dotted path.
path_head(path) == split(path, ".")[1]

\* C12 as stated: in value resolution and in condition evaluation a path
\* whose first segment is env, sys or runtime is never looked up as a
\* document field or an import alias, whatever its length: the outcome is
\* the one an empty document without imports gives.
C12_NamespacesNeverLookedUp ==
    /\ (res.op = "resolve_value_recursively" /\ res.arg.t = "Reference"
            /\ Len(res.arg.path) >= 1 /\ res.arg.path[1] \in dollar_namespaces)
           => res.out = resolve_value_recursively(res.arg, <<>>, EmptyDocument, 0)
    /\ (res.op = "condition_is_met"
            /\ path_head(res.arg.path) \in dollar_namespaces)
           => res.out = condition_is_met(res.arg, <<>>, EmptyDocument)

\* The top-level entry of the main document called name.
main_item(name) == find_pair(MainDoc.items, name)

main_global(name) == find_pair(MainDoc.globals, name)

\* C18 as stated: a value that starts with `if` is parsed as
\* `if <condition> <then_value> [else <else_value>]` into a
\* Value::Conditional with that condition (Exists for a bare identifier,
\* Equals for `ident = value`), then-value and optional else-value.
C18_InlineConditionalParsed ==
    /\ (res.op = "from_str" /\ res.arg = TextInlineIfElse)
           => /\ res.out.ok
              /\ main_global("v")
                     = Some(VConditional(Exists("debug"), VNumber(1), Some(VNumber(2))))
    /\ (res.op = "from_str" /\ res.arg = TextInlineIfEquals)
           => /\ res.out.ok
              /\ main_global("v")
                     = Some(VConditional(Equals("app", VNumber(1)), VString("one"), None))

\* C19 as stated: a condition written with a dotted path is accepted and
\* yields a Condition with the full dotted path; and a condition path of two
\* or more segments that begins with env, sys or runtime is answered from the
\* namespace lookup, not from a document field of that name.
C19_DottedConditionPath ==
    /\ (res.op = "from_str" /\ res.arg = TextEnvCondition)
           => /\ res.out.ok
              /\ main_item("a")
                     = Some(VObject(<<IfBlock(Exists("env.DEBUG"),
                                              <<Assign("k", VNumber(1))>>, None)>>))
    /\ (res.op = "from_str" /\ res.arg = TextDottedCondition)
           => /\ res.out.ok
              /\ main_item("a")
                     = Some(VObject(<<IfBlock(Equals("a.b", VNumber(1)),
                                              <<Assign("k", VNumber(1))>>, None)>>))
    /\ (res.op = "condition_is_met"
            /\ Len(split(res.arg.path, ".")) >= 2
            /\ path_head(res.arg.path) \in dollar_namespaces)
           => res.out = condition_is_met(res.arg, <<>>, EmptyDocument)

\* C20 as stated: an `if ... endif` block is accepted in the body of every
\* object block, also of a block nested in a block and of a block nested in
\* an if-branch, and is recorded as an IfBlock among the items of the object
\* that directly contains it.
C20_IfBlockInEveryObject ==
    /\ (res.op = "from_str" /\ res.arg = TextBlockIf)
           => /\ res.out.ok
              /\ main_item("a")
                     = Some(VObject(<<IfBlock(Exists("x"),
                                              <<Assign("k", VNumber(1))>>, None)>>))
    /\ (res.op = "from_str" /\ res.arg = TextNestedBlockIf)
           => /\ res.out.ok
              /\ main_item("a")
                     = Some(VObject(<<Assign("b", VObject(<<
                            IfBlock(Exists("x"), <<Assign("k", VNumber(1))>>, None)>>))>>))
    /\ (res.op = "from_str" /\ res.arg = TextBranchBlockIf)
           => /\ res.out.ok
              /\ main_item("a")
                     = Some(VObject(<<IfBlock(Exists("x"),
                            <<Assign("b", VObject(<<
                                IfBlock(Exists("y"), <<Assign("k", VNumber(1))>>,
                                        None)>>))>>,
                            None)>>))

(***************************************************************************)
(* Properties of the lexer                                                  *)
(***************************************************************************)

LexOps == {"next_token", "next_token_in_array"}

\* The characters the call skips before a token: blanks, and newlines too
\* inside an array.
blanks == {" ", "\t"} \cup (IF res.op = "next_token_in_array" THEN {"\n"} ELSE {})

RECURSIVE first_nonblank(_, _)
first_nonblank(s, i) ==
    IF i <= Len(s) /\ char_at(s, i) \in blanks THEN first_nonblank(s, i + 1) ELSE i

\* The text the last call lexed and the index its token starts at.
lexed_text == res.from.input

token_start == first_nonblank(lexed_text, res.from.pos)

\* Index of the first quote at or after i that no backslash escapes, or 0.
RECURSIVE closing_quote(_, _, _)
closing_quote(s, i, quote) ==
    IF i > Len(s) THEN 0
    ELSE IF char_at(s, i) = quote THEN i
    ELSE IF char_at(s, i) = "\\" THEN closing_quote(s, i + 2, quote)
    ELSE closing_quote(s, i + 1, quote)

\* The characters of s from i up to j - 1 with each escape sequence replaced.
RECURSIVE unescaped(_, _, _)
unescaped(s, i, j) ==
    IF i >= j THEN ""
    ELSE IF char_at(s, i) = "\\"
    THEN escaped(char_at(s, i + 1)) \o unescaped(s, i + 2, j)
    ELSE char_at(s, i) \o unescaped(s, i + 1, j)

\* The last call was made where a string literal starts.
at_string ==
    /\ res.op \in LexOps
    /\ token_start <= Len(lexed_text)
    /\ char_at(lexed_text, token_start) \in {"\"", "'"}

string_close ==
    closing_quote(lexed_text, token_start + 1, char_at(lexed_text, token_start))

\* C13 as stated: a string literal whose opening quote is matched by a later
\* unescaped identical quote is returned as Token::String with the unescaped
\* content and the lexer is left just after the closing quote, whatever
\* follows, the end of the input included.
C13_ClosedStringLexed ==
    (at_string /\ string_close # 0)
        => /\ res.out = Ok(TString(unescaped(lexed_text, token_start + 1, string_close)))
           /\ the_lexer.pos = string_close + 1

\* C14 as stated: a string literal whose opening quote is never matched by an
\* unescaped identical quote makes next_token return UnclosedString 103,
\* whatever the unterminated content is.
C14_UnclosedStringFails ==
    (at_string /\ string_close = 0) => res.out = Err("UnclosedString", 103)

\* The last call was made where a regex literal r"..." starts.
at_regex ==
    /\ res.op \in LexOps
    /\ token_start + 1 <= Len(lexed_text)
    /\ char_at(lexed_text, token_start) = "r"
    /\ char_at(lexed_text, token_start + 1) = "\""

regex_close == closing_quote(lexed_text, token_start + 2, "\"")

\* C15 as stated: a regex literal that no unescaped double quote closes makes
\* next_token return UnclosedString 103; a Token::Regex is returned only
\* when the closing quote was consumed, and its text is then the characters
\* between the quotes, backslashes kept.
C15_UnclosedRegexFails ==
    at_regex
        => /\ regex_close = 0 => res.out = Err("UnclosedString", 103)
           /\ res.out.ok
                  => /\ regex_close # 0
                     /\ res.out.v = TRegex(SubSeq(lexed_text, token_start + 2,
                                                  regex_close - 1))
                     /\ the_lexer.pos = regex_close + 1

ReservedWords ==
    {"true", "false", "end", "endif", "gather", "as", "if", "else", "elseif",
     "null", "None"}

\* The dedicated token of a reserved word.
DedicatedToken(word) ==
    CASE word = "true" -> TBool(TRUE)
      [] word = "false" -> TBool(FALSE)
      [] word = "end" -> Tok("End")
      [] word = "endif" -> Tok("EndIf")
      [] word = "gather" -> Tok("Gather")
      [] word = "as" -> Tok("As")
      [] word = "if" -> Tok("If")
      [] word = "else" -> Tok("Else")
      [] word = "elseif" -> Tok("ElseIf")
      [] word \in {"null", "None"} -> Tok("Null")

\* The last call was made where a word starts: a letter that does not open
\* a regex literal.
at_word ==
    /\ res.op \in LexOps
    /\ token_start <= Len(lexed_text)
    /\ char_at(lexed_text, token_start) \in Letters
    /\ ~at_regex

\* The run of letters, digits, '_' and '-' that starts the token.
word_read ==
    SubSeq(lexed_text, token_start, ident_end(lexed_text, token_start) - 1)

\* C16 as stated: a reserved word lexed as a complete word yields its
\* dedicated token and never Token::Ident; every other run of letters,
\* digits, '_' and '-' that starts with a letter yields Token::Ident with
\* that text.
C16_ReservedWords ==
    at_word
        => res.out = Ok(IF word_read \in ReservedWords THEN DedicatedToken(word_read)
                        ELSE TIdent(word_read))

\* C17 as stated: a comment ends before the newline, so the tokens of
\* `first # c\nsecond` are the tokens of `first \nsecond`, the Newline
\* included.
C17_CommentKeepsNewline ==
    res.op = "tokens"
        => res.out = tokens(uncommented(res.arg[1], res.arg[2]))

(***************************************************************************)
(* Properties of the conversions                                            *)
(***************************************************************************)

\* MIN(T) <= n <= MAX(T)
in_range(n, T) == less_eq(int_min(T), n) /\ less_eq(n, int_max(T))

\* C21 as stated: converting Number(n), n integer-valued, to a sized integer
\* T succeeds iff MIN(T) <= n <= MAX(T) and then yields exactly n; outside
\* the range it returns a TypeError, never a wrapped or clamped value.
C21_SizedIntegerRange ==
    (res.op = "try_from" /\ res.arg.t = "Number")
       => /\ res.out.ok <=> in_range(res.arg.n, res.target)
          /\ res.out.ok => res.out.v = res.arg.n
          /\ ~res.out.ok => res.out.kind = "TypeError"

(***************************************************************************)
(* Properties of the typed access layer                                     *)
(***************************************************************************)

\* A segment, its all-underscore form and its all-hyphen form.
forms(seg) == {seg, replace(seg, "-", "_"), replace(seg, "_", "-")}

\* The candidate paths: every segment replaced independently by a form.
RECURSIVE candidates(_)
candidates(segs) ==
    IF Len(segs) = 0 THEN {<<>>}
    ELSE {<<v>> \o rest : v \in forms(segs[1]), rest \in candidates(Tail(segs))}

\* The resolved configuration.
resolved_config == get_value(documents, "")

\* Whether a path exists in the resolved configuration, under its own
\* spelling or a candidate's; the blank path names the configuration itself.
path_exists(path) ==
    \/ is_blank(path)
    \/ \E c \in candidates(split(path, ".")) :
          is_some(lookup_path(resolved_config.v, c))

\* C22 as stated: get_optional(path) returns Ok(None) iff the path does not
\* exist in the resolved configuration; when resolving the configuration
\* fails that error is returned; when the path exists the result is
\* Ok(Some(v)) or the conversion error.
C22_OptionalNoneIffAbsent ==
    res.op = "get_optional"
       => IF ~resolved_config.ok THEN res.out = resolved_config
          ELSE /\ (res.out.ok /\ is_none(res.out.v)) <=> ~path_exists(res.arg)
               /\ path_exists(res.arg)
                     => \/ res.out.ok /\ is_some(res.out.v)
                        \/ ~res.out.ok /\ res.out.kind = "TypeError"

\* The candidates of a path that get_value finds.
existing(path) ==
    {c \in candidates(split(path, ".")) : get_value(documents, join(c, ".")).ok}

\* c is tried before d in the depth-first walk: at the first segment where
\* they differ c has the form tried first.
precedes(c, d) ==
    \E i \in 1..Len(c) :
        /\ c[i] # d[i]
        /\ str_less(c[i], d[i])
        /\ \A j \in 1..(i - 1) : c[j] = d[j]

first_existing(path) ==
    CHOOSE c \in existing(path) : \A d \in existing(path) \ {c} : precedes(c, d)

\* Whether the last lookup succeeded.
succeeded == IF res.op = "has" THEN res.out ELSE res.out.ok

names_of(doc) ==
    {doc.globals[i][1] : i \in DOMAIN doc.globals}
        \cup {doc.items[i][1] : i \in DOMAIN doc.items}

\* The main file as written, before anything was merged into it.
own_document == parsed_document(raw_content).v

\* The aliases of the main file's `gather "file"` statements without `as`
\* whose file was loaded.
included_aliases ==
    LET specs == parse_gather_specs(raw_content)
    IN {specs[i].alias : i \in {j \in DOMAIN specs : ~specs[j].explicit_alias}}
           \cap DOMAIN documents

load_finished == loader.pc = "done" /\ loader.result.ok /\ loaded

\* C24 as stated: with `gather "file"` (no `as`), a top-level name defined
\* by both the main file and the included file has the main file's
\* definition: get_value of it and a reference to it give what they give on
\* the main file's own document; a name defined only in the included file
\* is reachable from the main document.
C24_IncludeMainWins ==
    (load_finished /\ included_aliases # {}) =>
        /\ (res.op = "get_value" /\ path_head(res.arg) \in names_of(own_document))
               => res.out = get_value([documents EXCEPT ![main_doc_key] = own_document],
                                      res.arg)
        /\ (res.op = "resolve_reference" /\ res.arg[1] \in names_of(own_document))
               => res.out = resolve_reference(Imports, res.arg, own_document)
        /\ (res.op = "get_value"
              /\ \E a \in included_aliases :
                     res.arg \in names_of(documents[a]) \ names_of(own_document))
               => res.out.ok

\* No path occurs twice in a sequence of paths.
no_duplicates(paths) ==
    \A i, j \in DOMAIN paths : paths[i] = paths[j] => i = j

main_gathers ==
    LET specs == parse_gather_specs(raw_content)
    IN {[alias |-> specs[i].alias,
         file |-> unwrap(named_by(resolve_gather_path(specs[i].raw_path,
                                                      loader.base_dir).v))]
          : i \in {j \in DOMAIN specs :
                     LET target == resolve_gather_path(specs[j].raw_path, loader.base_dir)
                     IN  target.ok /\ exists(target.v)}}

\* C27 as stated: after from_file_with_base has succeeded, every gather
\* statement of the main file whose target file exists has the parsed
\* document of that file stored under its alias.
C27_EveryGatherHasDocument ==
    load_finished =>
        \A g \in main_gathers :
            /\ g.alias \in DOMAIN documents
            /\ documents[g.alias] = parsed_document(Files[g.file]).v

(***************************************************************************)
(* Properties of the termination of resolution                              *)
(***************************************************************************)

RECURSIVE references_in(_)
RECURSIVE references_in_items(_)

\* The paths of the References a value holds, at any depth.
references_in(value) ==
    CASE value.t = "Reference" -> {value.path}
      [] value.t = "Array" ->
           UNION {references_in(value.arr[i]) : i \in DOMAIN value.arr}
      [] value.t = "Object" -> references_in_items(value.items)
      [] value.t = "Conditional" ->
           references_in(value.then_value)
               \cup (IF is_some(value.else_value)
                     THEN references_in(unwrap(value.else_value)) ELSE {})
      [] OTHER -> {}

references_in_items(items) ==
    UNION {IF items[i].t = "Assign" THEN references_in(items[i].v)
           ELSE references_in_items(items[i].then_items)
                    \cup (IF is_some(items[i].else_items)
                          THEN references_in_items(unwrap(items[i].else_items))
                          ELSE {})
             : i \in DOMAIN items}

\* Whether resolution answers for the path itself: env.NAME, sys.*, runtime.*
namespace_path(path) ==
    \/ Len(path) = 2 /\ path[1] = "env"
    \/ Len(path) >= 1 /\ path[1] \in {"sys", "runtime"}

\* The references met when the reference path is followed one step through
\* resolve_reference.
referenced_by(path) ==
    IF namespace_path(path) THEN {}
    ELSE LET target == resolve_reference(Imports, path, MainDoc)
         IN  IF is_some(target) THEN references_in(unwrap(target)) ELSE {}

\* The paths reached from a set of paths by following references.
RECURSIVE reachable(_)
reachable(paths) ==
    LET further == paths \cup UNION {referenced_by(p) : p \in paths}
    IN  IF further = paths THEN paths ELSE reachable(further)

\* Following references from the value never leads back to a reference
\* already being resolved.
acyclic(value) ==
    \A p \in reachable(references_in(value)) : p \notin reachable(referenced_by(p))

\* C26: resolve_value_recursively returns, Ok or Err, for every value of a
\* main document and import table whose reference graph is acyclic.
C26_AcyclicResolutionReturns ==
    (res.op = "resolve_value_recursively" /\ acyclic(res.arg))
        => res.out # StackOverflow

\* A value resolved through a reference whose target holds references.
C26_Witness ==
    /\ res.op = "resolve_value_recursively"
    /\ acyclic(res.arg)
    /\ \E p \in references_in(res.arg) : referenced_by(p) # {}
    /\ res.out.ok

(***************************************************************************)
(* Properties relating path lookup and reference resolution                 *)
(***************************************************************************)

\* What a Reference [name] resolves to.
resolution_of_reference(name) ==
    resolve_value_recursively(VReference(<<name>>), Imports, MainDoc, 0)

\* C28 as stated: for every top-level name n of the main document,
\* get_value(n) returns the resolution of the definition that a Reference
\* [n] resolves to, also when n is both a global and a top-level block.
C28_LookupAgreesWithReference ==
    (res.op = "get_value" /\ res.arg \in names_of(MainDoc))
        => res.out = resolution_of_reference(res.arg)

\* The reference x.u into the imported document x, whose field u holds the
\* References [y] and [app]: y is defined in x alone.
into_import == VReference(<<"x", "u">>)

\* What the Reference [name] written in an import comes to: the main
\* document's resolved value when the main document defines the name, the
\* Reference as it is otherwise.
as_in_main(name) ==
    IF name \in names_of(MainDoc) THEN resolution_of_reference(name).v
    ELSE VReference(<<name>>)

\* C29: when a reference resolves into an imported document and the value
\* found there holds a Reference, the inner reference is resolved against
\* the main document and the import table, not against the imported
\* document: a bare name defined only in the import stays an unresolved
\* Reference, and a name also defined in the main document takes the main
\* document's value.
C29_InnerReferenceAgainstMain ==
    (res.op = "resolve_value_recursively" /\ res.arg = into_import
        /\ "x" \in DOMAIN Imports)
        => /\ "y" \in names_of(Imports["x"]) \ names_of(MainDoc)
           /\ res.out = Ok(VArray(<<VReference(<<"y">>), as_in_main("app")>>))

\* x.u was resolved with app defined in the main document.
C29_Witness ==
    /\ res.op = "resolve_value_recursively"
    /\ res.arg = into_import
    /\ "x" \in DOMAIN Imports
    /\ "app" \in names_of(MainDoc)
    /\ res.out.ok
    /\ res.out.v.arr[2] # VReference(<<"app">>)

(***************************************************************************)
(* Properties of conditions on the environment                              *)
(***************************************************************************)

\* C30: for the condition path env.HOME, of exactly two segments, the
\* variable counts as present whether or not HOME is set: Exists is true
\* and NotExists is false, and with HOME unset Equals(env.HOME, "") is true
\* because the lookup yields the empty string.
C30_EnvConditionCountsAsPresent ==
    (res.op = "condition_is_met" /\ res.arg.path = "env.HOME") =>
        /\ res.arg.t = "Exists" => res.out = TRUE
        /\ res.arg.t = "NotExists" => res.out = FALSE
        /\ (res.arg.t = "Equals" /\ res.arg.expected = VString("")
               /\ is_none(env_var("HOME")))
               => res.out = TRUE

\* Exists(env.HOME) was evaluated with HOME unset.
C30_Witness ==
    /\ res.op = "condition_is_met"
    /\ res.arg = Exists("env.HOME")
    /\ is_none(env_var("HOME"))
    /\ res.out = TRUE

====
